---- MODULE Spec2Model ----
(***************************************************************************)
(* ROI extraction of ms_feature_validation/lcms.py: the mass matcher       *)
(* (_match_mz), the trace tracker (_RoiProcessor) and the ROI driver       *)
(* (_make_roi).                                                            *)
(*                                                                         *)
(* Masses are exact rationals <<numerator, denominator>> in units of      *)
(* 0.001 m/z (100.001 is <<100001, 1>>); floating point rounding is not    *)
(* modelled.  numpy arrays are sequences: position i of an array is        *)
(* position i + 1 of its sequence.                                         *)
(***************************************************************************)
EXTENDS Integers, Sequences, FiniteSets, TLC

VARIABLES
    params,     \* the arguments of _make_roi
    pc,         \* position of _make_roi: read, add, append, spawn, flush, done, raised
    k_scan,     \* the scan of the for loop, counted from params.start
    p,          \* position in roi_processor_list of the inner / final loop
    mz,         \* local mz of _make_roi: the masses no processor has matched yet
    spint,      \* local spint of _make_roi
    procs,      \* roi_processor_list: the state of every _RoiProcessor
    rt,         \* local rt of _make_roi
    roi,        \* the list returned by _make_roi
    scans,      \* the scans read so far from msexp, as (mz, spint) pairs
    hist,       \* history: per processor its seed, and per scan the miss counters
                \* at the start of the scan and the rows matched in the scan
    call,       \* arguments of a call of a pure function
    ret,        \* its result
    container   \* a DataContainer of process.py

vars == <<params, pc, k_scan, p, mz, spint, procs, rt, roi, scans, hist, call, ret, container>>

----------------------------------------------------------------------------
(* Exact arithmetic *)

Abs(x) == IF x < 0 THEN -x ELSE x

RECURSIVE Gcd(_, _)
Gcd(a, b) == IF b = 0 THEN a ELSE Gcd(b, a % b)

Rat(n, d) == LET g == Gcd(Abs(n), d) IN <<n \div g, d \div g>>
RInt(i) == <<i, 1>>
RZero == <<0, 1>>
RAdd(a, b) == Rat(a[1] * b[2] + b[1] * a[2], a[2] * b[2])
RSub(a, b) == Rat(a[1] * b[2] - b[1] * a[2], a[2] * b[2])
RMulI(a, n) == Rat(a[1] * n, a[2])
RDivI(a, n) == Rat(a[1], a[2] * n)
RAbs(a) == <<Abs(a[1]), a[2]>>
RLe(a, b) == a[1] * b[2] <= b[1] * a[2]
RLt(a, b) == a[1] * b[2] < b[1] * a[2]

RECURSIVE RSum(_)
RSum(s) == IF s = <<>> THEN RZero ELSE RAdd(Head(s), RSum(Tail(s)))

RECURSIVE ISum(_)
ISum(s) == IF s = <<>> THEN 0 ELSE Head(s) + ISum(Tail(s))

\* np.mean and np.sum, the default mz_reduce and sp_reduce
NpMean(s) == RDivI(RSum(s), Len(s))
NpSum(s) == ISum(s)

Min(S) == CHOOSE x \in S : \A y \in S : x <= y

RECURSIVE SetToSeq(_)
SetToSeq(S) == IF S = {} THEN <<>> ELSE <<Min(S)>> \o SetToSeq(S \ {Min(S)})

Range(s) == {s[i] : i \in 1..Len(s)}

----------------------------------------------------------------------------
(* utils.find_closest is not part of the sources at hand: the index of the *)
(* element of x nearest to xq by absolute difference (the first one on a   *)
(* tie).                                                                   *)
find_closest(x, xq) ==
    CHOOSE i \in 1..Len(x) :
        \A j \in 1..Len(x) :
            \/ RLt(RAbs(RSub(x[i], xq)), RAbs(RSub(x[j], xq)))
            \/ /\ RAbs(RSub(x[i], xq)) = RAbs(RSub(x[j], xq))
               /\ i <= j

\* np.argmin(d[lo:hi]) + lo, as a position of the sequence d
ArgMin(d, lo, hi) ==
    CHOOSE j \in lo..hi :
        \A l \in lo..hi : RLt(d[j], d[l]) \/ (d[j] = d[l] /\ j <= l)

\* dmz <= tolerance
WithinTolerance(d, tolerance) == RLe(d, RInt(tolerance))

(***************************************************************************)
(* _match_mz.  np.unique gives, for match_index = closest_index[match_mask],*)
(* positions (first_index) and run lengths (count_index) in the MASKED     *)
(* arrays mz2[match_mask], sp2[match_mask].  The code then uses them as    *)
(* positions of the unmasked dmz, mz2, sp2 and of mz_match (one entry per  *)
(* unique slot); the model does the same.  An index past the end of        *)
(* mz_match raises IndexError.                                             *)
(***************************************************************************)
MatchErr(e) == [err |-> e, match_index |-> <<>>, mz_match |-> <<>>,
                sp_match |-> <<>>, mz_no_match |-> <<>>, sp_no_match |-> <<>>]

\* a[mask] keeps these positions of a
Masked(mask) == SetToSeq({j \in DOMAIN mask : mask[j]})

\* np.unique(a, return_index=True, return_counts=True)
np_unique(a) ==
    LET u == SetToSeq(Range(a))
    IN  [unique |-> u,
         index |-> [t \in 1..Len(u) |-> Min({i \in 1..Len(a) : a[i] = u[t]})],
         counts |-> [t \in 1..Len(u) |-> Cardinality({i \in 1..Len(a) : a[i] = u[t]})]]

\* lines 866-901, given closest_index, dmz, the positions match_mask keeps
\* and what np.unique returned
resolve_multiple(mz2, sp2, mode, dmz, kept, un) ==
    LET nu == Len(un.unique)
        multi == SetToSeq({t \in 1..nu : un.counts[t] > 1})
        nm == Len(multi)
        \* index:(index + count), read in the unmasked arrays
        lo(u) == un.index[multi[u]]
        hi(u) == un.index[multi[u]] + un.counts[multi[u]] - 1
        out_of_range == \E u \in 1..nm : lo(u) > nu
        written(t) == CHOOSE u \in 1..nm : lo(u) = t
        is_written(t) == \E u \in 1..nm : lo(u) = t
        rm_index == UNION {(lo(u)..hi(u)) \ {ArgMin(dmz, lo(u), hi(u))} : u \in 1..nm}
        no_match == IF nm > 0 /\ mode = "closest"
                    THEN SetToSeq((1..Len(mz2) \ Range(kept)) \cup rm_index)
                    ELSE SetToSeq(1..Len(mz2) \ Range(kept))
        MzReplace(u) == IF mode = "closest" THEN mz2[ArgMin(dmz, lo(u), hi(u))]
                        ELSE NpMean(SubSeq(mz2, lo(u), hi(u)))
        SpReplace(u) == IF mode = "closest" THEN sp2[ArgMin(dmz, lo(u), hi(u))]
                        ELSE NpSum(SubSeq(sp2, lo(u), hi(u)))
    IN  IF nm > 0 /\ mode \notin {"closest", "reduce"} THEN MatchErr("ValueError")
        ELSE IF out_of_range THEN MatchErr("IndexError")
        ELSE [err |-> "none",
              match_index |-> un.unique,
              mz_match |-> [t \in 1..nu |-> IF is_written(t) THEN MzReplace(written(t))
                                            ELSE mz2[kept[un.index[t]]]],
              sp_match |-> [t \in 1..nu |-> IF is_written(t) THEN SpReplace(written(t))
                                            ELSE sp2[kept[un.index[t]]]],
              mz_no_match |-> [i \in 1..Len(no_match) |-> mz2[no_match[i]]],
              sp_no_match |-> [i \in 1..Len(no_match) |-> sp2[no_match[i]]]]

\* lines 858-864
match_unique(mz2, sp2, mode, closest_index, dmz, kept) ==
    resolve_multiple(mz2, sp2, mode, dmz, kept,
                     np_unique([i \in 1..Len(kept) |-> closest_index[kept[i]]]))

\* lines 855-857
match_mask(mz2, sp2, tolerance, mode, closest_index, dmz) ==
    match_unique(mz2, sp2, mode, closest_index, dmz,
                 Masked([j \in 1..Len(mz2) |-> WithinTolerance(dmz[j], tolerance)]))

\* line 855
match_dmz(mz1, mz2, sp2, tolerance, mode, closest_index) ==
    match_mask(mz2, sp2, tolerance, mode, closest_index,
               [j \in 1..Len(mz2) |-> RAbs(RSub(mz1[closest_index[j]], mz2[j]))])

_match_mz(mz1, mz2, sp2, tolerance, mode) ==
    IF Len(mz1) = 0 THEN MatchErr("IndexError")   \* no element to be nearest to
    ELSE match_dmz(mz1, mz2, sp2, tolerance, mode,
                   [j \in 1..Len(mz2) |-> find_closest(mz1, mz2[j])])

----------------------------------------------------------------------------
(* _RoiProcessor.  max_missing, min_length, tolerance and multiple_match   *)
(* are the same for every processor of a run and are read from params.     *)

Zeros(n) == [i \in 1..n |-> 0]

\* _RoiProcessor.__init__, lines 753-765
NewProcessor(mz_seed, size, first_scan) ==
    [first_scan |-> first_scan,
     mz_mean |-> mz_seed,
     mz |-> [r \in 1..Len(mz_seed) |-> [c \in 1..size |-> RZero]],
     sp |-> [r \in 1..Len(mz_seed) |-> [c \in 1..size |-> 0]],
     counter |-> [r \in 1..Len(mz_seed) |-> 1],
     missing |-> Zeros(Len(mz_seed)),
     index |-> 0,
     start |-> Zeros(Len(mz_seed)),
     roi |-> <<>>,
     size |-> size]

\* the checks of _RoiProcessor.__init__ that raise ValueError: the number of
\* dimensions of the seed (lines 733-735) and the mode (lines 737-739)
ValidSeed(ndim) == ndim = 1
ValidMode(multiple_match) == multiple_match \in {"closest", "reduce"}

\* lines 782-783: (mz_mean * counter + mz_match) / (counter + 1)
UpdatedMeanPostWeight(mean, counter, x) == RDivI(RAdd(RMulI(mean, counter + 1), x), counter + 2)
UpdatedMean(mean, counter, x) == RDivI(RAdd(RMulI(mean, counter), x), counter + 1)

\* the position in match_index of a matched row
PosOf(m, r) == CHOOSE t \in 1..Len(m.match_index) : m.match_index[t] = r

\* _RoiProcessor.add after _match_mz has returned m without raising
AddMatched(proc, m) ==
    LET hit == Range(m.match_index)
        col == proc.index + 1
    IN  [proc EXCEPT
            !.mz = [r \in 1..Len(proc.mz) |->
                       IF r \in hit THEN [proc.mz[r] EXCEPT ![col] = m.mz_match[PosOf(m, r)]]
                       ELSE proc.mz[r]],
            !.sp = [r \in 1..Len(proc.sp) |->
                       IF r \in hit THEN [proc.sp[r] EXCEPT ![col] = m.sp_match[PosOf(m, r)]]
                       ELSE proc.sp[r]],
            !.mz_mean = [r \in 1..Len(proc.mz_mean) |->
                       IF r \in hit
                       THEN UpdatedMean(proc.mz_mean[r], proc.counter[r], m.mz_match[PosOf(m, r)])
                       ELSE proc.mz_mean[r]],
            !.counter = [r \in 1..Len(proc.counter) |->
                       IF r \in hit THEN proc.counter[r] + 1 ELSE proc.counter[r]],
            !.missing = [r \in 1..Len(proc.missing) |->
                       IF r \in hit THEN 0 ELSE proc.missing[r] + 1],
            !.index = proc.index + 1]

\* what add does with the result m of _match_mz: it raises when _match_mz
\* did, and when the column is past the end of the buffers
add_matched(proc, m) ==
    IF m.err # "none" \/ (proc.index >= proc.size /\ m.match_index # <<>>)
    THEN [raised |-> TRUE, proc |-> proc, hit |-> {},
          mz_no_match |-> <<>>, sp_no_match |-> <<>>]
    ELSE [raised |-> FALSE, proc |-> AddMatched(proc, m), hit |-> Range(m.match_index),
          mz_no_match |-> m.mz_no_match, sp_no_match |-> m.sp_no_match]

\* _RoiProcessor.add
add(proc, new_mz, new_sp) ==
    add_matched(proc, _match_mz(proc.mz_mean, new_mz, new_sp,
                                params.tolerance, params.multiple_match))

is_completed(proc, row) == proc.missing[row] > params.max_missing

is_valid_roi_strict(proc, row) == proc.index - proc.start[row] > params.min_length
is_valid_roi(proc, row) == proc.index - proc.start[row] >= params.min_length

\* a[lo:hi] of numpy, lo and hi counted from 0 and cut at the end of a
Slice(a, lo, hi) == SubSeq(a, lo + 1, IF hi < Len(a) THEN hi ELSE Len(a))

\* Chromatogram(spint, rt, mz) without start and end: start 0, end rt.size.
\* row, first and last record where the ROI comes from.
ChromatogramRtByScanNumber(proc, row, rtv) ==
    [spint |-> Slice(proc.sp[row], proc.start[row], proc.index),
     rt |-> Slice(rtv, params.start + proc.first_scan + proc.start[row],
                  params.start + proc.first_scan + proc.index),
     mz |-> Slice(proc.mz[row], proc.start[row], proc.index),
     start |-> 0,
     end |-> Len(Slice(rtv, params.start + proc.first_scan + proc.start[row],
                       params.start + proc.first_scan + proc.index)),
     row |-> row, first |-> proc.start[row], last |-> proc.index]
Chromatogram(proc, row, rtv) ==
    [spint |-> Slice(proc.sp[row], proc.start[row], proc.index),
     rt |-> Slice(rtv, proc.first_scan + proc.start[row], proc.first_scan + proc.index),
     mz |-> Slice(proc.mz[row], proc.start[row], proc.index),
     start |-> 0,
     end |-> Len(Slice(rtv, proc.first_scan + proc.start[row], proc.first_scan + proc.index)),
     row |-> row, first |-> proc.start[row], last |-> proc.index]

\* _RoiProcessor.append_to_roi that leaves _start as it is
append_to_roi_no_restart(proc, rtv) ==
    LET completed_index == SetToSeq({row \in 1..Len(proc.missing) :
                                        is_completed(proc, row) /\ is_valid_roi(proc, row)})
    IN  [proc EXCEPT
            !.roi = proc.roi \o [i \in 1..Len(completed_index) |->
                                    Chromatogram(proc, completed_index[i], rtv)],
            !.missing = [row \in 1..Len(proc.missing) |->
                            IF is_completed(proc, row) THEN 0 ELSE proc.missing[row]]]

\* _RoiProcessor.append_to_roi
append_to_roi(proc, rtv) ==
    LET completed_index == SetToSeq({row \in 1..Len(proc.missing) :
                                        is_completed(proc, row) /\ is_valid_roi(proc, row)})
    IN  [proc EXCEPT
            !.roi = proc.roi \o [i \in 1..Len(completed_index) |->
                                    Chromatogram(proc, completed_index[i], rtv)],
            !.missing = [row \in 1..Len(proc.missing) |->
                            IF is_completed(proc, row) THEN 0 ELSE proc.missing[row]],
            !.start = [row \in 1..Len(proc.start) |->
                            IF is_completed(proc, row) THEN proc.index ELSE proc.start[row]]]

\* _RoiProcessor.flag_as_completed
flag_as_completed_short(proc) ==
    [proc EXCEPT !.missing = [row \in 1..Len(proc.missing) |-> params.max_missing]]
flag_as_completed(proc) ==
    [proc EXCEPT !.missing = [row \in 1..Len(proc.missing) |-> params.max_missing + 1]]

----------------------------------------------------------------------------
(* The scans of msexp.  A scan is read when the driver first asks for it   *)
(* and stays what it was.                                                  *)

\* msexp holds MaxScans scans; _make_roi is given 0 <= start < end <= MaxScans
MaxScans == 3
\* the scans of a run that follows one seed mass
TraceScans == 8

ScanMassSet == {99990, 100001, 100002}
\* the mass a trace run follows, and a mass far from it
TraceMasses == <<100001, 100040>>
TraceSeed == TraceMasses[1]
TraceFiller == TraceMasses[2]
TargetedChoices == {<<100001>>}
\* masses around the seed of a run that is made twice
RerunMassSet == {99996, 100003, 100005}
MaxMissingSet == {0, 1}
MinLengthSet == {1, 2}
TraceMaxMissingSet == {0, 1, 2}
DefaultMinLength == 5
DefaultTolerance == 5

RatSeq(s) == [i \in 1..Len(s) |-> RInt(s[i])]

\* the ascending arrays over a set of masses, at most n long
Ascending(S, n) == {SetToSeq(T) : T \in {T \in SUBSET S : Cardinality(T) \in 1..n}}

\* sp.getRT() of the scan at position k of msexp
RetentionTime(k) == 10 * (k + 1)

Scan(masses) == [mz |-> RatSeq(masses), spint |-> [i \in 1..Len(masses) |-> 1]]

ScanChoices ==
    IF params.source = "trace"
    THEN {Scan(<<TraceSeed>>), Scan(<<TraceFiller>>)}
    ELSE IF params.source = "rerun"
    THEN {Scan(<<m>>) : m \in RerunMassSet}
    ELSE {Scan(<<>>)} \cup {Scan(m) : m \in Ascending(ScanMassSet, Cardinality(ScanMassSet))}

\* msexp.getSpectrum(start + i): scans[i + 1] when it has been read before
GetSpectrum(i, s) == IF i < Len(scans) THEN s = scans[i + 1] ELSE s \in ScanChoices
Remember(i, s) == IF i < Len(scans) THEN scans ELSE Append(scans, s)

NoCall == [fn |-> "none"]
\* no DataContainer has been made
NoContainer == [made |-> FALSE]

Size == params.end - params.start

NewHist(seed, n) == [seed |-> seed, miss0 |-> Zeros(n), hit |-> {}, fed |-> FALSE,
                     flush_start |-> Zeros(n)]

ParamsOf(st, en, mm, ml, mode, tmz, src) ==
    [start |-> st, end |-> en, tolerance |-> DefaultTolerance, max_missing |-> mm,
     min_length |-> ml, multiple_match |-> mode,
     targeted |-> (tmz # <<>>), targeted_mz |-> RatSeq(tmz), targeted_ndim |-> 1,
     source |-> src]

Entered ==
    /\ pc = "begin"
    /\ k_scan = params.start
    /\ p = 0
    /\ mz = <<>>
    /\ spint = <<>>
    /\ procs = <<>>
    /\ rt = <<>>
    /\ roi = <<>>
    /\ scans = <<>>
    /\ hist = <<>>
    /\ call = NoCall
    /\ ret = MatchErr("none")
    /\ container = NoContainer

Init ==
    /\ \E st \in 0..(MaxScans - 1), mm \in MaxMissingSet, ml \in MinLengthSet,
          mode \in {"closest", "reduce", "merge"}, tmz \in {<<>>} \cup TargetedChoices :
          \E en \in (st + 1)..MaxScans :
              params = ParamsOf(st, en, mm, ml, mode, tmz, "free")
    /\ Entered

InitTrace ==
    /\ \E mm \in TraceMaxMissingSet, mode \in {"closest", "reduce"},
          tmz \in {<<>>, <<TraceSeed>>} :
          params = ParamsOf(0, TraceScans, mm, DefaultMinLength, mode, tmz, "trace")
    /\ Entered

\* the tolerances a run is given, and the dimensions of targeted_mz
ArgToleranceSet == {-1, 0, DefaultTolerance}
NdimSet == {1, 2}

\* runs whose tolerance and targeted_mz are arbitrary
InitArgs ==
    /\ \E st \in 0..(MaxScans - 1), mode \in {"closest", "reduce", "merge"},
          tmz \in {<<>>} \cup TargetedChoices, tol \in ArgToleranceSet, nd \in NdimSet :
          \E en \in (st + 1)..MaxScans :
              /\ tmz = <<>> => nd = 1
              /\ params = [ParamsOf(st, en, 0, 1, mode, tmz, "free")
                              EXCEPT !.tolerance = tol, !.targeted_ndim = nd]
    /\ Entered

InitRerun ==
    /\ \E mm \in MaxMissingSet, ml \in MinLengthSet, mode \in {"closest", "reduce"},
          tmz \in {<<>>, <<TraceSeed>>} :
          params = ParamsOf(0, MaxScans, mm, ml, mode, tmz, "rerun")
    /\ Entered

----------------------------------------------------------------------------
(* _make_roi *)

\* lines 945-966: the seed and the first processor
Begin ==
    /\ pc = "begin"
    /\ \E s \in ScanChoices :
          /\ IF params.targeted THEN scans' = scans
             ELSE GetSpectrum(0, s) /\ scans' = Remember(0, s)
          /\ LET mz_seed == IF params.targeted THEN params.targeted_mz ELSE s.mz
                 seed_ndim == IF params.targeted THEN params.targeted_ndim ELSE 1
             IN  IF ValidSeed(seed_ndim) /\ ValidMode(params.multiple_match)
                 THEN /\ procs' = <<NewProcessor(mz_seed, Size, 0)>>
                      /\ hist' = <<NewHist(mz_seed, Len(mz_seed))>>
                      /\ rt' = Zeros(Size)
                      /\ pc' = "read"
                 ELSE /\ pc' = "raised"
                      /\ UNCHANGED <<procs, hist, rt>>
    /\ UNCHANGED <<params, k_scan, p, mz, spint, roi, call, container, ret>>

\* lines 968-971: the next scan of the for loop
ReadScan ==
    /\ pc = "read"
    /\ \E s \in ScanChoices :
          /\ GetSpectrum(k_scan - params.start, s)
          /\ scans' = Remember(k_scan - params.start, s)
          /\ mz' = s.mz
          /\ spint' = s.spint
    /\ rt' = [rt EXCEPT ![k_scan - params.start + 1] = RetentionTime(k_scan)]
    /\ hist' = [q \in 1..Len(hist) |->
                   [hist[q] EXCEPT !.miss0 = procs[q].missing, !.hit = {}, !.fed = FALSE]]
    /\ p' = 1
    /\ pc' = "add"
    /\ UNCHANGED <<params, k_scan, procs, roi, call, container, ret>>

\* line 974: mz, spint = processor.add(mz, spint) of the inner loop
Added(r) ==
    IF r.raised
    THEN /\ pc' = "raised"
         /\ UNCHANGED <<mz, spint, procs, hist>>
    ELSE /\ procs' = [procs EXCEPT ![p] = r.proc]
         /\ mz' = r.mz_no_match
         /\ spint' = r.sp_no_match
         /\ hist' = [hist EXCEPT ![p].hit = r.hit, ![p].fed = TRUE]
         /\ pc' = "append"

Add ==
    /\ pc = "add"
    /\ mz # <<>>
    /\ Added(add(procs[p], mz, spint))
    /\ UNCHANGED <<params, k_scan, p, rt, roi, scans, call, container, ret>>

\* lines 976-977: no mass is left, the other processors are not visited
Break ==
    /\ pc = "add"
    /\ mz = <<>>
    /\ pc' = "spawn"
    /\ UNCHANGED <<params, k_scan, p, mz, spint, procs, rt, roi, scans, hist, call, container, ret>>

\* line 975: processor.append_to_roi(rt) of the inner loop
AppendToRoi ==
    /\ pc = "append"
    /\ procs' = [procs EXCEPT ![p] = append_to_roi(procs[p], rt)]
    /\ p' = p + 1
    /\ pc' = IF p + 1 > Len(procs) THEN "spawn" ELSE "add"
    /\ UNCHANGED <<params, k_scan, mz, spint, rt, roi, scans, hist, call, container, ret>>

\* the for loop goes on to the next scan, or ends
Advance ==
    /\ k_scan' = k_scan + 1
    /\ p' = 1
    /\ pc' = IF k_scan + 1 < params.end THEN "read" ELSE "flush"

\* lines 978-986: a processor for the masses left over
SpawnInEveryMode ==
    /\ pc = "spawn"
    /\ mz # <<>>
    /\ procs' = Append(procs, NewProcessor(mz, params.end - k_scan, k_scan - params.start))
    /\ hist' = Append(hist, NewHist(mz, Len(mz)))
    /\ p' = Len(procs) + 1
    /\ pc' = "spawn_add"
    /\ UNCHANGED <<params, k_scan, mz, spint, rt, roi, scans, call, container, ret>>
\* a processor whose buffers are one column short
SpawnOneColumnShort ==
    /\ pc = "spawn"
    /\ mz # <<>> /\ ~params.targeted
    /\ procs' = Append(procs, NewProcessor(mz, params.end - k_scan - 1, k_scan - params.start))
    /\ hist' = Append(hist, NewHist(mz, Len(mz)))
    /\ p' = Len(procs) + 1
    /\ pc' = "spawn_add"
    /\ UNCHANGED <<params, k_scan, mz, spint, rt, roi, scans, call, container, ret>>
Spawn ==
    /\ pc = "spawn"
    /\ mz # <<>> /\ ~params.targeted
    /\ procs' = Append(procs, NewProcessor(mz, params.end - k_scan, k_scan - params.start))
    /\ hist' = Append(hist, NewHist(mz, Len(mz)))
    /\ p' = Len(procs) + 1
    /\ pc' = "spawn_add"
    /\ UNCHANGED <<params, k_scan, mz, spint, rt, roi, scans, call, container, ret>>

\* line 978 when it does not hold
NoSpawn ==
    /\ pc = "spawn"
    /\ ~(mz # <<>> /\ ~params.targeted)
    /\ Advance
    /\ UNCHANGED <<params, mz, spint, procs, rt, roi, scans, hist, call, container, ret>>

\* line 987: tmp_processor.add(mz, spint); what it returns is dropped
SpawnAdded(r) ==
    IF r.raised
    THEN /\ pc' = "raised"
         /\ UNCHANGED <<procs, hist>>
    ELSE /\ procs' = [procs EXCEPT ![p] = r.proc]
         /\ hist' = [hist EXCEPT ![p].hit = r.hit, ![p].fed = TRUE]
         /\ pc' = "spawn_append"

SpawnAdd ==
    /\ pc = "spawn_add"
    /\ SpawnAdded(add(procs[p], mz, spint))
    /\ UNCHANGED <<params, k_scan, p, mz, spint, rt, roi, scans, call, container, ret>>

\* lines 988-989: tmp_processor.append_to_roi(rt), and the loop goes on
SpawnAppend ==
    /\ pc = "spawn_append"
    /\ procs' = [procs EXCEPT ![p] = append_to_roi(procs[p], rt)]
    /\ Advance
    /\ UNCHANGED <<params, mz, spint, rt, roi, scans, hist, call, container, ret>>

\* line 994: processor.flag_as_completed() of the final loop
Flag ==
    /\ pc = "flush"
    /\ procs' = [procs EXCEPT ![p] = flag_as_completed(procs[p])]
    /\ hist' = [hist EXCEPT ![p].flush_start = procs[p].start]
    /\ pc' = "flush_append"
    /\ UNCHANGED <<params, k_scan, p, mz, spint, rt, roi, scans, call, container, ret>>

\* lines 995-997: processor.append_to_roi(rt) and roi.extend(processor.roi)
FlushAppend ==
    /\ pc = "flush_append"
    /\ procs' = [procs EXCEPT ![p] = append_to_roi(procs[p], rt)]
    /\ roi' = roi \o procs'[p].roi
    /\ p' = p + 1
    /\ pc' = IF p + 1 > Len(procs) THEN "done" ELSE "flush"
    /\ UNCHANGED <<params, k_scan, mz, spint, rt, scans, hist, call, container, ret>>

(***************************************************************************)
(* _make_roi called once more by the same caller: same msexp, same         *)
(* arguments, and in targeted mode the same targeted_mz array.  Line 754   *)
(* makes that array the running means of the processor (no copy) and line  *)
(* 785 writes the means into it, so the array now holds the means the      *)
(* first call ended with.  call keeps what the first call returned.        *)
(***************************************************************************)
Rerun ==
    /\ pc = "done"
    /\ call = NoCall
    /\ call' = [fn |-> "_make_roi", first |-> roi]
    /\ params' = [params EXCEPT !.targeted_mz = IF params.targeted THEN procs[1].mz_mean ELSE @]
    /\ pc' = "begin"
    /\ k_scan' = params.start
    /\ p' = 0
    /\ mz' = <<>>
    /\ spint' = <<>>
    /\ procs' = <<>>
    /\ rt' = <<>>
    /\ roi' = <<>>
    /\ hist' = <<>>
    /\ UNCHANGED <<scans, ret, container>>

(***************************************************************************)
(* The inner loop of one scan, lines 972-977, with the processors visited  *)
(* in a given order; _make_roi visits them in the order of the list.       *)
(***************************************************************************)
RECURSIVE FeedScan(_, _, _, _)

\* lines 974-975 for the processor at the head of order, r what add returned
FeedOne(ps, order, r) ==
    IF r.raised
    THEN [raised |-> TRUE, procs |-> ps, mz |-> <<>>, spint |-> <<>>]
    ELSE FeedScan([ps EXCEPT ![Head(order)] = append_to_roi(r.proc, rt)],
                  Tail(order), r.mz_no_match, r.sp_no_match)

FeedScan(ps, order, m, s) ==
    IF order = <<>> \/ m = <<>>
    THEN [raised |-> FALSE, procs |-> ps, mz |-> m, spint |-> s]
    ELSE FeedOne(ps, order, add(ps[Head(order)], m, s))

\* the order of roi_processor_list
ListOrder(n) == [i \in 1..n |-> i]

Next ==
    \/ Begin
    \/ ReadScan
    \/ Add
    \/ Break
    \/ AppendToRoi
    \/ Spawn
    \/ NoSpawn
    \/ SpawnAdd
    \/ SpawnAppend
    \/ Flag
    \/ FlushAppend

Spec == Init /\ [][Next]_vars
SpecArgs == InitArgs /\ [][Next]_vars

SpecTrace == InitTrace /\ [][Next]_vars

NextRerun ==
    \/ Next
    \/ Rerun

SpecRerun == InitRerun /\ [][NextRerun]_vars

----------------------------------------------------------------------------
(* Properties of the tracker and the driver *)

Rows(proc) == 1..Len(proc.missing)

AppendPcs == {"append", "spawn_append", "flush_append"}

\* the ROIs a step has appended to the list of processor p
NewRois == [i \in 1..(Len(procs'[p].roi) - Len(procs[p].roi)) |->
               procs'[p].roi[Len(procs[p].roi) + i]]

C1_Step ==
    LET before == procs[p]
        after == procs'[p]
        due(row) == before.missing[row] > params.max_missing
        long(row) == before.index - before.start[row] >= params.min_length
    IN  /\ SubSeq(after.roi, 1, Len(before.roi)) = before.roi
        /\ \A row \in Rows(before) :
              /\ (due(row) /\ long(row)) <=>
                    Cardinality({i \in 1..Len(NewRois) : NewRois[i].row = row}) = 1
              /\ ~(due(row) /\ long(row)) =>
                    ~\E i \in 1..Len(NewRois) : NewRois[i].row = row
              /\ due(row) => /\ after.missing[row] = 0
                             /\ after.start[row] = before.index
              /\ ~due(row) => /\ after.missing[row] = before.missing[row]
                              /\ after.start[row] = before.start[row]
        /\ \A i \in 1..Len(NewRois) :
              /\ NewRois[i].row \in Rows(before)
              /\ NewRois[i].mz = Slice(before.mz[NewRois[i].row],
                                       before.start[NewRois[i].row], before.index)
              /\ NewRois[i].spint = Slice(before.sp[NewRois[i].row],
                                          before.start[NewRois[i].row], before.index)
        /\ after.index = before.index
        /\ after.mz = before.mz /\ after.sp = before.sp
        /\ after.mz_mean = before.mz_mean /\ after.counter = before.counter

SeedIn(i) == i < Len(scans) /\ RInt(TraceSeed) \in Range(scans[i + 1].mz)

\* C2: max_missing = 1, the seed mass matched in scans 0-4 and missed in
\* scans 5 and 6: once scan 6 is processed the processor has emitted one
\* trace, of length 5, and the slot's next trace starts at scan 7.
C2_TraceOfLengthFive ==
    ( /\ params.source = "trace"
      /\ params.max_missing = 1
      /\ pc = "read" /\ k_scan = 7
      /\ \A i \in 0..4 : SeedIn(i)
      /\ ~SeedIn(5) /\ ~SeedIn(6) ) =>
        /\ Len(procs[1].roi) = 1
        /\ Len(procs[1].roi[1].mz) = 5
        /\ Len(procs[1].roi[1].spint) = 5
        /\ procs[1].start[1] = 7

Matched(r) == {c \in 1..Len(r.mz) : r.mz[c] # RZero}

\* C3: with min_length = 5 no emitted trace is one that was matched in just
\* 3 consecutive scans, whatever max_missing is.
C3_ThreeScanTraceDiscarded ==
    params.min_length = 5 =>
        \A q \in 1..Len(procs) : \A i \in 1..Len(procs[q].roi) :
            ~\E c \in 1..Len(procs[q].roi[i].mz) :
                Matched(procs[q].roi[i]) = {c, c + 1, c + 2}

\* the miss counter a slot is to have when the inner loop of a scan is over:
\* 0 after a match and one more than at the start of the scan otherwise,
\* then reset by append_to_roi when above max_missing
MissAfterScan(q, row) ==
    LET added == IF row \in hist[q].hit THEN 0 ELSE hist[q].miss0[row] + 1
    IN  IF added > params.max_missing THEN 0 ELSE added

\* C4: in every scan the miss counter of every slot of every processor is
\* reset by a match and incremented by one otherwise, also in scans without
\* peaks and in scans whose peaks earlier processors have used up.
C4_MissCounterEveryScan ==
    pc = "spawn" =>
        \A q \in 1..Len(procs) : \A row \in Rows(procs[q]) :
            procs[q].missing[row] = MissAfterScan(q, row)

C5_Step ==
    LET before == procs[p]
        after == procs'[p]
        x(row) == after.mz[row][before.index + 1]
    IN  \A row \in Rows(before) :
            IF row \in hist'[p].hit
            THEN /\ after.mz_mean[row] =
                        RDivI(RAdd(RMulI(before.mz_mean[row], before.counter[row]), x(row)),
                              before.counter[row] + 1)
                 /\ after.counter[row] = before.counter[row] + 1
            ELSE /\ after.mz_mean[row] = before.mz_mean[row]
                 /\ after.counter[row] = before.counter[row]

C5_Sum ==
    \A q \in 1..Len(procs) : \A row \in Rows(procs[q]) :
        RMulI(procs[q].mz_mean[row], procs[q].counter[row]) =
            RAdd(hist[q].seed[row], RSum(procs[q].mz[row]))

\* C5: add gives a matched slot the mean (mean * n + x) / (n + 1) and the
\* counter n + 1, n the counter before the update, and leaves the mean and
\* the counter of an unmatched slot alone; mean * counter of a slot is always
\* its seed plus the sum of the values matched to it.
C5_MeanUsesPreUpdateCounter ==
    /\ []C5_Sum
    /\ [][(pc \in {"add", "spawn_add"} /\ pc' \in {"append", "spawn_append"}) => C5_Step]_vars

\* a slot whose mean has moved off its seed, next to a slot that was missed
C5_Witness ==
    \E q \in 1..Len(procs) : \E r1, r2 \in Rows(procs[q]) :
        /\ procs[q].counter[r1] >= 3
        /\ procs[q].mz_mean[r1] # hist[q].seed[r1]
        /\ procs[q].mz_mean[r1][2] > 1
        /\ procs[q].counter[r2] = 2
        /\ procs[q].missing[r2] > 0

\* C9: when a scan is over every processor has processed one column for each
\* scan since the one it was made at.
C9_EveryGroupFedEveryScan ==
    pc \in {"read", "flush"} =>
        \A q \in 1..Len(procs) :
            procs[q].index = k_scan - params.start - procs[q].first_scan

\* the returned list holds the trace of processor q, row, columns first+1..last
Returns(q, row, first, last) ==
    \E i \in 1..Len(roi) :
        /\ roi[i].mz = Slice(procs[q].mz[row], first, last)
        /\ roi[i].spint = Slice(procs[q].sp[row], first, last)
        /\ roi[i].rt = Slice(rt, procs[q].first_scan + first, procs[q].first_scan + last)

ScanMasses == Range(scans[k_scan - params.start + 1].mz)

C11_Step ==
    Len(procs') # Len(procs) =>
        /\ Len(procs') = Len(procs) + 1
        /\ SubSeq(procs', 1, Len(procs)) = procs
        /\ \/ pc = "begin"
           \/ /\ ~params.targeted
              /\ pc = "spawn"
              /\ hist'[Len(procs')].seed # <<>>
              /\ Range(hist'[Len(procs')].seed) \subseteq ScanMasses
              /\ procs'[Len(procs')].first_scan = k_scan - params.start

C11_Groups ==
    /\ params.targeted =>
          /\ Len(procs) <= 1
          /\ pc \notin {"begin", "raised"} => Len(procs) = 1
          /\ procs # <<>> => /\ hist[1].seed = params.targeted_mz
                             /\ Len(procs[1].mz_mean) = Len(params.targeted_mz)
    /\ ~params.targeted =>
          /\ Len(procs) <= 1 + (k_scan - params.start) + (IF pc \in {"spawn_add", "spawn_append"} THEN 1 ELSE 0)
          /\ \A q1, q2 \in 2..Len(procs) :
                q1 < q2 => procs[q1].first_scan < procs[q2].first_scan

\* C11: with targeted_mz there is one processor, seeded with the caller's
\* masses, and there is still one after every scan whatever masses the scans
\* leave unmatched; without it a scan adds at most one processor, and only
\* one seeded with masses of that scan that it has left unmatched.
C11_OneGroupWhenTargeted == []C11_Groups /\ [][C11_Step]_vars

\* a targeted run is past a scan that has left a mass unmatched
C11_Witness ==
    /\ params.targeted
    /\ pc = "read"
    /\ k_scan > params.start
    /\ mz # <<>>
    /\ Len(procs) = 1

\* the orders in which n processors can be visited
Orders(n) == {f \in [1..n -> 1..n] : \A i, j \in 1..n : f[i] = f[j] => i = j}

\* C12: at the start of the inner loop of a scan, visiting the processors in
\* any order leaves every processor (buffers, means, counters and emitted
\* ROIs) as visiting them in the order of the list does.
C12_OrderOfGroupsIrrelevant ==
    (pc = "add" /\ p = 1) =>
        \A f \in Orders(Len(procs)) :
            FeedScan(procs, f, mz, spint).procs =
                FeedScan(procs, ListOrder(Len(procs)), mz, spint).procs

\* the series of the ROIs of a list
Series(rois) == [i \in 1..Len(rois) |->
                    [mz |-> rois[i].mz, spint |-> rois[i].spint, rt |-> rois[i].rt]]

\* C13: a second call of _make_roi with the same msexp, the same arguments
\* and the same seed array returns the ROIs the first call returned: as
\* many, in the same order, with the same mass, intensity and retention
\* time series.
C13_SecondRunSameRois ==
    (call.fn = "_make_roi" /\ pc = "done") => Series(roi) = Series(call.first)

\* every ROI a processor has emitted and every ROI _make_roi has returned
Emitted == Range(roi) \cup UNION {Range(procs[q].roi) : q \in 1..Len(procs)}

\* C14: the intensity, mass and retention time series of every emitted ROI
\* have the same length, and that length is end - start of the ROI, for
\* every range [start, end) of scans _make_roi is given.
C14_SeriesLengths ==
    \A r \in Emitted :
        /\ Len(r.spint) = Len(r.mz)
        /\ Len(r.rt) = Len(r.mz)
        /\ Len(r.mz) = r.end - r.start

\* a run that does not start at scan 0 has returned a ROI of two scans or
\* more and a ROI of a processor made after the first scan
C14_Witness ==
    /\ pc = "done"
    /\ params.start > 0
    /\ \E i \in 1..Len(roi) : Len(roi[i].rt) >= 2
    /\ \E q \in 2..Len(procs) : procs[q].roi # <<>>

----------------------------------------------------------------------------
(* Calls of _match_mz on their own: the running means of a processor and   *)
(* the peaks of one scan, both ascending.                                  *)

MaxNewMasses == 4

MeanChoices == {<<100000>>, <<100000, 100020>>}
NewMassSet == {99980, 99990, 99999, 100001, 100002, 100019, 100021}
ToleranceSet == {1, 5}
IntensitySet == {1, 2}
ModeSet == {"closest", "reduce", "merge"}

\* the driver is not running
Idle ==
    /\ params = [targeted |-> FALSE]
    /\ pc = "idle"
    /\ k_scan = 0
    /\ p = 0
    /\ mz = <<>>
    /\ spint = <<>>
    /\ procs = <<>>
    /\ rt = <<>>
    /\ roi = <<>>
    /\ scans = <<>>
    /\ hist = <<>>
    /\ container = NoContainer

driver_vars == <<params, pc, k_scan, p, mz, spint, procs, rt, roi, scans, hist>>
\* the variables of the calls in lcms.py but hist
driver_state == <<params, pc, k_scan, p, mz, spint, procs, rt, roi, scans>>

InitMatch ==
    /\ Idle
    /\ \E m1 \in MeanChoices, m2 \in Ascending(NewMassSet, MaxNewMasses),
          tol \in ToleranceSet, mode \in ModeSet :
          \E s2 \in [1..Len(m2) -> IntensitySet] :
              call = [fn |-> "_match_mz", mz1 |-> RatSeq(m1), mz2 |-> RatSeq(m2),
                      sp2 |-> s2, tolerance |-> tol, mode |-> mode]
    /\ ret = MatchErr("pending")

MatchCall ==
    /\ call.fn = "_match_mz"
    /\ ret.err = "pending"
    /\ ret' = _match_mz(call.mz1, call.mz2, call.sp2, call.tolerance, call.mode)
    /\ UNCHANGED <<driver_vars, call, container>>

NextMatch == MatchCall

SpecMatch == InitMatch /\ [][NextMatch]_vars

----------------------------------------------------------------------------
(* What the matcher is to return, stated on the arguments alone *)

Returned == call.fn = "_match_mz" /\ ret.err = "none"

Distance(j) == RAbs(RSub(call.mz1[find_closest(call.mz1, call.mz2[j])], call.mz2[j]))

\* the new masses that are candidates of slot s
Candidates(s) ==
    {j \in 1..Len(call.mz2) :
        /\ find_closest(call.mz1, call.mz2[j]) = s
        /\ RLe(Distance(j), RInt(call.tolerance))}

Crowded == {s \in 1..Len(call.mz1) : Cardinality(Candidates(s)) > 1}

Nearest(s) == {j \in Candidates(s) : \A l \in Candidates(s) : RLe(Distance(j), Distance(l))}

SlotPositions(s) == {t \in 1..Len(ret.match_index) : ret.match_index[t] = s}

FarMasses == {j \in 1..Len(call.mz2) : ~RLe(Distance(j), RInt(call.tolerance))}

\* C6: in closest mode each slot with several candidates is matched with its
\* nearest candidate, and every other candidate of the slot is returned as
\* unmatched: no candidate is dropped, none is matched as well as unmatched.
C6_ClosestKeepsNearest ==
    (Returned /\ call.mode = "closest") =>
        \A s \in Crowded :
            /\ \E t \in SlotPositions(s) : \E j \in Nearest(s) :
                  /\ ret.mz_match[t] = call.mz2[j]
                  /\ ret.sp_match[t] = call.sp2[j]
                  /\ \A l \in Candidates(s) \ {j} :
                        /\ call.mz2[l] \in Range(ret.mz_no_match)
                        /\ call.mz2[l] \notin Range(ret.mz_match)
                  /\ call.mz2[j] \notin Range(ret.mz_no_match)

\* C7: in reduce mode a slot with k >= 2 candidates gets the mean of exactly
\* those k masses and the sum of exactly those k intensities, in its own
\* position of the output; a slot with one candidate keeps it.
C7_ReduceCollapsesCandidates ==
    (Returned /\ call.mode = "reduce") =>
        \A s \in 1..Len(call.mz1) :
            Candidates(s) # {} =>
                \E t \in SlotPositions(s) :
                    LET c == SetToSeq(Candidates(s))
                    IN  /\ ret.mz_match[t] = NpMean([i \in 1..Len(c) |-> call.mz2[c[i]]])
                        /\ ret.sp_match[t] = NpSum([i \in 1..Len(c) |-> call.sp2[c[i]]])

\* C8: a new mass farther than the tolerance from its nearest running mean is
\* returned as unmatched and written to no slot, and every value written to
\* a slot is within the tolerance of the slot's running mean.
C8_OnlyWithinToleranceIsWritten ==
    (Returned /\ call.mode \in {"closest", "reduce"}) =>
        /\ \A j \in FarMasses :
              /\ call.mz2[j] \in Range(ret.mz_no_match)
              /\ call.mz2[j] \notin Range(ret.mz_match)
        /\ \A t \in 1..Len(ret.match_index) :
              RLe(RAbs(RSub(ret.mz_match[t], call.mz1[ret.match_index[t]])),
                  RInt(call.tolerance))

----------------------------------------------------------------------------
(***************************************************************************)
(* Isotopic envelope search: find_isotopic_distribution_aux and            *)
(* find_isotopic_distribution.  Here masses are counted from 500.000000 in *)
(* units of 0.000001 m/z (500.5017 is 501700): the search uses differences *)
(* of masses only.  Indices are positions of the sequence (numpy index     *)
(* plus one).                                                              *)
(***************************************************************************)

\* dm = 1.003355
dm == 1003355

\* line 350, negated: the monoisotopic mass is found
mono_found_always(mz_mono, mz_ft, tol) == TRUE
mono_found(mz_mono, mz_ft, tol) == RLe(RAbs(RSub(mz_mono, mz_ft)), RInt(tol))

\* line 354: mz_mono + np.arange(n_isotopes) * dm / q
mz_theoretic_uncharged(mz_mono, q, n_isotopes) ==
    [k \in 1..n_isotopes |-> RAdd(mz_mono, Rat((k - 1) * dm, 1))]
mz_theoretic(mz_mono, q, n_isotopes) ==
    [k \in 1..n_isotopes |-> RAdd(mz_mono, Rat((k - 1) * dm, q))]

\* line 355: find_closest(mz, mz_theoretic)
closest_ind(mz_sp, theoretic) == [k \in 1..Len(theoretic) |-> find_closest(mz_sp, theoretic[k])]

\* lines 356-357
match_ind(mz_sp, theoretic, closest, tol) ==
    LET where == SetToSeq({k \in 1..Len(theoretic) :
                     RLe(RAbs(RSub(mz_sp[closest[k]], theoretic[k])), RInt(tol))})
    IN  [i \in 1..Len(where) |-> closest[where[i]]]

\* lines 353-357
isotopes_of(mz_sp, theoretic, tol) == match_ind(mz_sp, theoretic, closest_ind(mz_sp, theoretic), tol)

\* lines 349-358, mono_index what find_closest(mz, mz_ft) returned
isotopes_from(mz_sp, mz_ft, q, n_isotopes, tol, mono_index) ==
    IF ~mono_found(mz_sp[mono_index], mz_ft, tol) THEN <<>>
    ELSE isotopes_of(mz_sp, mz_theoretic(mz_sp[mono_index], q, n_isotopes), tol)

find_isotopic_distribution_aux(mz_sp, mz_ft, q, n_isotopes, tol) ==
    isotopes_from(mz_sp, mz_ft, q, n_isotopes, tol, find_closest(mz_sp, mz_ft))

\* lines 391-395: the loop from charge q on; n_peaks is not assigned in it
RECURSIVE charge_loop(_, _, _, _, _, _, _)

keep_charge(mz_sp, mz_mono, q_max, n_isotopes, tol, q, best_peaks, n_peaks, tmp) ==
    charge_loop(mz_sp, mz_mono, q_max, n_isotopes, tol, q + 1,
                IF Len(tmp) > n_peaks THEN [best_peaks |-> tmp, n_peaks |-> n_peaks]
                ELSE [best_peaks |-> best_peaks, n_peaks |-> n_peaks])

charge_loop(mz_sp, mz_mono, q_max, n_isotopes, tol, q, st) ==
    IF q > q_max THEN st.best_peaks
    ELSE keep_charge(mz_sp, mz_mono, q_max, n_isotopes, tol, q, st.best_peaks, st.n_peaks,
                     find_isotopic_distribution_aux(mz_sp, mz_mono, q, n_isotopes, tol))

find_isotopic_distribution(mz_sp, mz_mono, q_max, n_isotopes, tol) ==
    charge_loop(mz_sp, mz_mono, q_max, n_isotopes, tol, 1, [best_peaks |-> <<>>, n_peaks |-> 0])

\* the charges 1..MaxCharge and spectra of up to MaxPeaks peaks
MaxCharge == 3
MaxPeaks == 4
\* 500.0000, 500.3345, 500.5017, 501.0034, 502.0067
IsoMassSet == {0, 334500, 501700, 1003400, 2006700}
\* the mass asked for: 500.0000, 500.0050, 500.0500
MonoChoices == {0, 5000, 50000}
IsotopeCounts == {1, 2, 3}
\* 0.0001 and 0.01
IsoToleranceSet == {100, 10000}

InitIso ==
    /\ Idle
    /\ \E fn \in {"find_isotopic_distribution_aux", "find_isotopic_distribution"},
          m \in Ascending(IsoMassSet, MaxPeaks), mono \in MonoChoices,
          q \in 1..MaxCharge, n \in IsotopeCounts, tol \in IsoToleranceSet :
          call = [fn |-> fn, mz |-> RatSeq(m), mz_mono |-> RInt(mono), q |-> q,
                  n_isotopes |-> n, tol |-> tol]
    /\ ret = MatchErr("pending")

\* a call of find_isotopic_distribution_aux for the charge call.q
AuxCall ==
    /\ call.fn = "find_isotopic_distribution_aux"
    /\ ret.err = "pending"
    /\ ret' = [err |-> "none",
               match_ind |-> find_isotopic_distribution_aux(call.mz, call.mz_mono, call.q,
                                                            call.n_isotopes, call.tol)]
    /\ UNCHANGED <<driver_vars, call, container>>

\* a call of find_isotopic_distribution with q_max = call.q
IsoCall ==
    /\ call.fn = "find_isotopic_distribution"
    /\ ret.err = "pending"
    /\ ret' = [err |-> "none",
               match_ind |-> find_isotopic_distribution(call.mz, call.mz_mono, call.q,
                                                        call.n_isotopes, call.tol)]
    /\ UNCHANGED <<driver_vars, call, container>>

NextIso ==
    \/ AuxCall
    \/ IsoCall

SpecIso == InitIso /\ [][NextIso]_vars

----------------------------------------------------------------------------
(* What the isotopic search is to return, stated on the arguments alone *)

AuxReturned == call.fn = "find_isotopic_distribution_aux" /\ ret.err = "none"
IsoReturned == call.fn = "find_isotopic_distribution" /\ ret.err = "none"

Peaks == 1..Len(call.mz)
DistTo(i, x) == RAbs(RSub(call.mz[i], x))
Within(i, x) == RLe(DistTo(i, x), RInt(call.tol))
IsNearest(i, x) == \A l \in Peaks : RLe(DistTo(i, x), DistTo(l, x))

\* the monoisotopic mass is found: some observed mass is within tol of it
MonoFound == \E i \in Peaks : Within(i, call.mz_mono)
MonoPeak == CHOOSE i \in Peaks : IsNearest(i, call.mz_mono)

\* the mass predicted for isotope k of charge q, k = 0 the monoisotopic peak
Predicted(k, q) == RAdd(call.mz[MonoPeak], Rat(k * dm, q))

\* the isotopes of charge q that some observed mass is within tol of
Detected(q) == SetToSeq({k \in 0..(call.n_isotopes - 1) :
                   \E i \in Peaks : Within(i, Predicted(k, q))})

Count(q) == IF MonoFound THEN Len(Detected(q)) ELSE 0
BestCharges == {q \in 1..call.q : \A q2 \in 1..call.q : Count(q) >= Count(q2)}

\* C15: find_isotopic_distribution returns the candidates of the charge in
\* 1..q_max with the most matches within tolerance, the lowest such charge
\* when several have the most.
C15_MostMatchesLowestCharge ==
    IsoReturned =>
        ret.match_ind = find_isotopic_distribution_aux(call.mz, call.mz_mono, Min(BestCharges),
                                                       call.n_isotopes, call.tol)

Example(masses) ==
    /\ call.mz = RatSeq(masses)
    /\ call.mz_mono = RInt(0)
    /\ call.q = 2
    /\ call.n_isotopes = 3
    /\ call.tol = 10000

\* C16: for a charge q whose monoisotopic mass is found, the result holds,
\* in order of k, for each k in 0..n_isotopes-1 with an observed mass within
\* tol of mono + k*1.003355/q, the index of the observed mass nearest to
\* it, and nothing else.  For mono 500.0000, q = 2, tol 0.01, 3 isotopes it
\* is all 3 indices over 500.0000, 500.5017, 501.0034 and 2 indices without
\* 501.0034.
C16_NearestWithinTolerancePerIsotope ==
    AuxReturned =>
        /\ MonoFound =>
              /\ Len(ret.match_ind) = Len(Detected(call.q))
              /\ Len(ret.match_ind) <= call.n_isotopes
              /\ \A j \in 1..Len(ret.match_ind) :
                    /\ ret.match_ind[j] \in Peaks
                    /\ Within(ret.match_ind[j], Predicted(Detected(call.q)[j], call.q))
                    /\ IsNearest(ret.match_ind[j], Predicted(Detected(call.q)[j], call.q))
        /\ Example(<<0, 501700, 1003400>>) => ret.match_ind = <<1, 2, 3>>
        /\ Example(<<0, 501700>>) => ret.match_ind = <<1, 2>>

\* the example without its third peak
C16_Witness == AuxReturned /\ Example(<<0, 501700>>) /\ Len(ret.match_ind) = 2

\* C17: when no observed mass is within tol of the monoisotopic mass the
\* result of every charge is empty, and so is the result of
\* find_isotopic_distribution for every q_max; when one is, the result of
\* every charge holds the index of the monoisotopic peak.
C17_EmptyWithoutMonoisotopicPeak ==
    /\ (AuxReturned /\ ~MonoFound) => ret.match_ind = <<>>
    /\ (IsoReturned /\ ~MonoFound) => ret.match_ind = <<>>
    /\ (AuxReturned /\ MonoFound) => MonoPeak \in Range(ret.match_ind)

\* the mass asked for is not there, though the spectrum holds peaks one
\* isotope spacing apart
C17_Witness ==
    /\ AuxReturned
    /\ ~MonoFound
    /\ call.q = 1
    /\ {RInt(0), RInt(1003400)} \subseteq Range(call.mz)
    /\ ret.match_ind = <<>>

----------------------------------------------------------------------------
(***************************************************************************)
(* chromatogram, the EIC extractor.  Masses are in units of 0.001 m/z and  *)
(* the values of the chromatograms are exact rationals.  params holds the  *)
(* arguments, scans the spectra of msexp, k_scan is ksp, rt the array rt   *)
(* and ret.chromatograms the array chromatograms, one row per target mass. *)
(* An optional argument is <<>> for None and <<v>> for the value v.        *)
(***************************************************************************)

\* np.searchsorted(a, v): the number of elements of the sorted a below v
searchsorted(a, v) == Cardinality({i \in 1..Len(a) : RLt(a[i], v)})

\* lines 79-80: mz - window and mz + window of each target, interleaved
mz_intervals(mz_t, window) ==
    [i \in 1..(2 * Len(mz_t)) |->
        IF i % 2 = 1 THEN RSub(mz_t[(i + 1) \div 2], RInt(window))
        ELSE RAdd(mz_t[i \div 2], RInt(window))]

\* line 95
ind_sp_of(mz_sp, intervals) == [i \in 1..Len(intervals) |-> searchsorted(mz_sp, intervals[i])]

\* line 97: ind_sp[ind_sp >= int_sp.size] = int_sp.size - 1
clipped(ind_sp, size) == [i \in 1..Len(ind_sp) |-> IF ind_sp[i] >= size THEN size - 1 ELSE ind_sp[i]]

\* np.add.reduceat(a, ind)[i]: the sum of a[ind[i]:ind[i+1]], a[ind[i]] alone
\* when ind[i] >= ind[i+1], to the end of a for the last index
reduceat(a, ind, i) ==
    IF i = Len(ind) THEN ISum(SubSeq(a, ind[i] + 1, Len(a)))
    ELSE IF ind[i] < ind[i + 1] THEN ISum(SubSeq(a, ind[i] + 1, ind[i + 1]))
    ELSE a[ind[i] + 1]

\* lines 100-101
norm_of(ind_sp, t) ==
    IF ind_sp[2 * t] - ind_sp[2 * t - 1] = 0 THEN 1 ELSE ind_sp[2 * t] - ind_sp[2 * t - 1]

\* lines 98-107 for the clipped ind_sp: the column of one scan
eic_reduce(int_sp, ind_sp, accumulator) ==
    IF \E i \in 1..Len(ind_sp) : ind_sp[i] < 0 \/ ind_sp[i] >= Len(int_sp)
    THEN [err |-> "IndexError", column |-> <<>>]
    ELSE IF accumulator \notin {"mean", "sum"}
    THEN [err |-> "ValueError", column |-> <<>>]
    ELSE [err |-> "none",
          column |-> [t \in 1..(Len(ind_sp) \div 2) |->
                        IF accumulator = "mean"
                        THEN Rat(reduceat(int_sp, ind_sp, 2 * t - 1), norm_of(ind_sp, t))
                        ELSE RInt(reduceat(int_sp, ind_sp, 2 * t - 1))]]

\* lines 94-107
eic_column(sp, intervals, accumulator) ==
    eic_reduce(sp.spint, clipped(ind_sp_of(sp.mz, intervals), Len(sp.spint)), accumulator)

MaxEicScans == 2

EicMassSet == {99990, 100000, 100005}
\* the intensity of the peak at a mass
EicIntensity(m) == IF m = 99990 THEN 1 ELSE IF m = 100000 THEN 2 ELSE 4
EicTargetChoices == {<<100000>>, <<99980, 99995, 100003, 100020>>}
EicWindowSet == {2, 5}
AccumulatorSet == {"sum", "mean", "median"}

EicScan(masses) == [mz |-> RatSeq(masses), spint |-> [i \in 1..Len(masses) |-> EicIntensity(masses[i])]]
EicScanChoices == {EicScan(<<>>)} \cup {EicScan(m) : m \in Ascending(EicMassSet, Cardinality(EicMassSet))}

Optional(S) == {<<>>} \cup {<<v>> : v \in S}

InitEic ==
    /\ \E n \in 0..MaxEicScans : scans \in [1..n -> EicScanChoices]
    /\ \E t \in EicTargetChoices, w \in EicWindowSet, acc \in AccumulatorSet,
          st \in Optional(0..Len(scans)), en \in Optional(0..Len(scans)) :
          /\ (IF st = <<>> THEN 0 ELSE st[1]) <= (IF en = <<>> THEN Len(scans) ELSE en[1])
          /\ params = [mz |-> RatSeq(t), window |-> w, start |-> st, end |-> en,
                       accumulator |-> acc, targeted |-> FALSE]
    /\ pc = "eic"
    /\ k_scan = 0
    /\ p = 0
    /\ mz = <<>>
    /\ spint = <<>>
    /\ procs = <<>>
    /\ rt = <<>>
    /\ roi = <<>>
    /\ hist = <<>>
    /\ call = [fn |-> "chromatogram"]
    /\ ret = [err |-> "pending", chromatograms |-> <<>>]
    /\ container = NoContainer

\* lines 83-87
eic_start == IF params.start = <<>> THEN 0 ELSE params.start[1]
eic_end == IF params.end = <<>> THEN Len(scans) ELSE params.end[1]

\* lines 77-90: the arrays chromatograms and rt, all zero
EicAllocate ==
    /\ pc = "eic"
    /\ ret' = [err |-> "pending",
               chromatograms |-> [t \in 1..Len(params.mz) |->
                                    [c \in 1..(eic_end - eic_start) |-> RZero]]]
    /\ rt' = Zeros(eic_end - eic_start)
    /\ k_scan' = eic_start
    /\ pc' = "eic_loop"
    /\ UNCHANGED <<params, p, mz, spint, procs, roi, scans, hist, call, container>>

\* lines 98-107, col what the scan has given
EicStore(col) ==
    IF col.err # "none"
    THEN /\ pc' = "raised"
         /\ ret' = [ret EXCEPT !.err = col.err]
         /\ UNCHANGED k_scan
    ELSE /\ ret' = [ret EXCEPT !.chromatograms =
                        [t \in 1..Len(params.mz) |->
                            [ret.chromatograms[t] EXCEPT ![k_scan + 1] = col.column[t]]]]
         /\ k_scan' = k_scan + 1
         /\ pc' = "eic_loop"

\* lines 91-107: one pass of the loop; rt[ksp] and chromatograms[:, ksp] are
\* indexed by the scan number
EicScanStep ==
    /\ pc = "eic_loop"
    /\ k_scan < eic_end
    /\ IF k_scan >= Len(rt)
       THEN /\ pc' = "raised"
            /\ ret' = [ret EXCEPT !.err = "IndexError"]
            /\ UNCHANGED <<k_scan, rt>>
       ELSE /\ rt' = [rt EXCEPT ![k_scan + 1] = RetentionTime(k_scan)]
            /\ EicStore(eic_column(scans[k_scan + 1],
                                   mz_intervals(params.mz, params.window),
                                   params.accumulator))
    /\ UNCHANGED <<params, p, mz, spint, procs, roi, scans, hist, call, container>>

\* line 108
EicReturn ==
    /\ pc = "eic_loop"
    /\ k_scan >= eic_end
    /\ pc' = "done"
    /\ ret' = [ret EXCEPT !.err = "none"]
    /\ UNCHANGED <<params, k_scan, p, mz, spint, procs, rt, roi, scans, hist, call, container>>

NextEic ==
    \/ EicAllocate
    \/ EicScanStep
    \/ EicReturn

SpecEic == InitEic /\ [][NextEic]_vars

----------------------------------------------------------------------------
(* What the EIC extractor is to return, stated on the scans alone *)

EicTargets == 1..Len(params.mz)
EicRunning == call.fn = "chromatogram" /\ pc \in {"eic_loop", "done"}
ValidAccumulator == params.accumulator \in {"sum", "mean"}

\* the peaks of a scan with mass in [m - w, m + w], m the target t
InWindow(sp, t) ==
    {i \in 1..Len(sp.mz) :
        /\ RLe(RSub(params.mz[t], RInt(params.window)), sp.mz[i])
        /\ RLe(sp.mz[i], RAdd(params.mz[t], RInt(params.window)))}

ManualSum(sp, t) ==
    ISum([i \in 1..Cardinality(InWindow(sp, t)) |-> sp.spint[SetToSeq(InWindow(sp, t))[i]]])

Manual(sp, t) ==
    IF params.accumulator = "sum" THEN RInt(ManualSum(sp, t))
    ELSE Rat(ManualSum(sp, t), Cardinality(InWindow(sp, t)))

\* the scans processed so far in a call that starts at scan 0
DoneScans == IF eic_start = 0 THEN 0..(k_scan - 1) ELSE {}

\* C18: for every scan and target with points in [m - w, m + w], the value
\* is the sum of the intensities of those points with accumulator sum, and
\* that sum divided by their number with accumulator mean.
C18_WindowSumOrMean ==
    (EicRunning /\ ValidAccumulator) =>
        \A ksp \in DoneScans : \A t \in EicTargets :
            InWindow(scans[ksp + 1], t) # {} =>
                ret.chromatograms[t][ksp + 1] = Manual(scans[ksp + 1], t)

\* C19: for every scan with peaks and every target whose window holds none
\* of them the value is 0, and a call over scans with peaks does not fail.
C19_EmptyWindowIsZero ==
    /\ (EicRunning /\ ValidAccumulator) =>
          \A ksp \in DoneScans : \A t \in EicTargets :
              InWindow(scans[ksp + 1], t) = {} => ret.chromatograms[t][ksp + 1] = RZero
    /\ ( /\ call.fn = "chromatogram" /\ ValidAccumulator /\ eic_start = 0
         /\ \A i \in 1..Len(scans) : scans[i].mz # <<>> ) => pc # "raised"

\* C20: a call with 0 <= start < end <= number of scans, a valid accumulator
\* and scans with peaks returns, with end - start retention times and
\* end - start columns, column j those of scan start + j.
C20_SubRangeReturns ==
    (call.fn = "chromatogram" /\ ValidAccumulator) =>
        /\ (\A i \in (eic_start + 1)..eic_end : scans[i].mz # <<>>) => pc # "raised"
        /\ pc = "done" =>
              /\ Len(rt) = eic_end - eic_start
              /\ \A t \in EicTargets : Len(ret.chromatograms[t]) = eic_end - eic_start
              /\ \A j \in 0..(eic_end - eic_start - 1) :
                    /\ rt[j + 1] = RetentionTime(eic_start + j)
                    /\ \A t \in EicTargets :
                          ret.chromatograms[t][j + 1] =
                              eic_column(scans[eic_start + j + 1],
                                         mz_intervals(params.mz, params.window),
                                         params.accumulator).column[t]

\* the indices line 98 accumulates the scan sp with
UsedIndices(sp) == clipped(ind_sp_of(sp.mz, mz_intervals(params.mz, params.window)), Len(sp.spint))

\* C21: for every scan and every target interval, also one that reaches or
\* lies beyond the last mass of the scan, the indices used to accumulate
\* are within 0..len-1 and the call does not raise an index error.
C21_IndicesWithinScan ==
    (call.fn = "chromatogram" /\ eic_start = 0 /\ pc \in {"eic_loop", "done", "raised"}) =>
        /\ \A k \in 1..Len(scans) : \A i \in 1..(2 * Len(params.mz)) :
              (k <= k_scan \/ (pc = "raised" /\ k = k_scan + 1)) =>
                  UsedIndices(scans[k])[i] \in 0..(Len(scans[k].spint) - 1)
        /\ ret.err # "IndexError"

\* C22: a call with an accumulator other than sum and mean does not return,
\* whatever the range of scans, an empty one included.
C22_UnknownAccumulatorRejected ==
    (call.fn = "chromatogram" /\ ~ValidAccumulator) =>
        /\ pc # "done"
        /\ pc = "raised" => ret.err = "ValueError"

----------------------------------------------------------------------------
(***************************************************************************)
(* accumulate_spectra and _get_mz_roi.  Masses are in units of 0.001 m/z,  *)
(* intensities exact rationals; NaN is the value numpy gives the mean of   *)
(* an empty slice.  The result of a call records in reads how many         *)
(* spectra were read from msexp before it returned or raised.              *)
(***************************************************************************)

NaN == <<0, 0>>

RMul(a, b) == Rat(a[1] * b[1], a[2] * b[2])
\* a / b, b above 0
RDiv(a, b) == Rat(a[1] * b[2], a[2] * b[1])

\* a - b of floats
FSub(a, b) == IF a = NaN \/ b = NaN THEN NaN ELSE RSub(a, b)

\* the elements of a set of numbers as an array, in some order
RECURSIVE SetToSeqOfRat(_)
SetToSeqOfRat(S) == IF S = {} THEN <<>>
                    ELSE <<CHOOSE x \in S : TRUE>> \o SetToSeqOfRat(S \ {CHOOSE x \in S : TRUE})

\* min() of an array
RMinOf(a) == CHOOSE x \in Range(a) : \A y \in Range(a) : RLe(x, y)
RMaxOf(a) == CHOOSE x \in Range(a) : \A y \in Range(a) : RLe(y, x)

\* np.diff
np_diff(a) == IF Len(a) < 2 THEN <<>> ELSE [i \in 1..(Len(a) - 1) |-> RSub(a[i + 1], a[i])]

\* the length of np.arange(lo, hi, step): ceil((hi - lo) / step)
ArangeLen(d, step) ==
    IF (d[1] * step[2]) % (step[1] * d[2]) = 0
    THEN (d[1] * step[2]) \div (step[1] * d[2])
    ELSE (d[1] * step[2]) \div (step[1] * d[2]) + 1

\* np.arange(mz_min, mz_max, mz_res)
np_arange(lo, hi, step) ==
    [i \in 1..ArangeLen(RSub(hi, lo), step) |-> RAdd(lo, RMulI(step, i - 1))]

\* lines 186-193: the grid points that a mass of a scan of the region falls on;
\* roi_index i (counted from 0) is marked by a mass in (mz_ref[i-1], mz_ref[i]]
roi_of(msexp, region, mz_ref) ==
    SetToSeq({i \in 1..Len(mz_ref) :
        \E k \in (region[1] + 1)..region[2] : \E j \in 1..Len(msexp[k].mz) :
            searchsorted(mz_ref, msexp[k].mz[j]) = i - 1})

\* lines 182-193, mz_0 the masses of the first scan of the region
mz_roi_from(msexp, region, mz_0) ==
    IF Len(mz_0) < 2
    THEN [err |-> "ValueError", mz_ref |-> <<>>, reads |-> 1]
    ELSE LET grid == np_arange(RMinOf(mz_0), RMaxOf(mz_0), RMinOf(np_diff(mz_0)))
             keep == roi_of(msexp, region, grid)
         IN  [err |-> "none", mz_ref |-> [i \in 1..Len(keep) |-> grid[keep[i]]],
              reads |-> 1 + (region[2] - region[1])]

_get_mz_roi(msexp, region) == mz_roi_from(msexp, region, msexp[region[1] + 1].mz)

\* interp1d(mz_scan, int_scan, kind="linear")(x): the value of the line
\* through the two peaks around x; x outside the masses of the scan raises
interp_ok(sp, x) == Len(sp.mz) >= 1 /\ RLe(sp.mz[1], x) /\ RLe(x, sp.mz[Len(sp.mz)])

\* slope * (x - x_lo) + y_lo, slope = (y_hi - y_lo) / (x_hi - x_lo)
interp_between(sp, x, lo) ==
    RAdd(RMul(RDiv(RInt(sp.spint[lo + 1] - sp.spint[lo]), RSub(sp.mz[lo + 1], sp.mz[lo])),
              RSub(x, sp.mz[lo])),
         RInt(sp.spint[lo]))

interp(sp, x) ==
    interp_between(sp, x,
        IF searchsorted(sp.mz, x) < 1 THEN 1
        ELSE IF searchsorted(sp.mz, x) > Len(sp.mz) - 1 THEN Len(sp.mz) - 1
        ELSE searchsorted(sp.mz, x))

\* np.sum / np.mean over axis 0 of the rows lo..hi-1 (counted from 0), at
\* one grid point
accumulate(accumulator, interp_int, lo, hi, g) ==
    IF accumulator = "sum" THEN RSum([r \in 1..(hi - lo) |-> interp_int[lo + r][g]])
    ELSE IF hi - lo <= 0 THEN NaN
    ELSE RDivI(RSum([r \in 1..(hi - lo) |-> interp_int[lo + r][g]]), hi - lo)

\* lines 156-165
accum_int_of(accumulator, interp_int, start, end, rows, n) ==
    [g \in 1..n |->
        FSub(FSub(accumulate(accumulator, interp_int, start, end, g),
                  accumulate(accumulator, interp_int, 0, start, g)),
             accumulate(accumulator, interp_int, end, rows, g))]

\* lines 149-165, ref what _get_mz_roi returned
accumulate_over(msexp, start, end, subtract, accumulator, ref) ==
    IF ref.err # "none"
    THEN [err |-> ref.err, accum_mz |-> <<>>, accum_int |-> <<>>, reads |-> ref.reads]
    ELSE IF \E k \in (subtract[1] + 1)..subtract[2] : \E g \in 1..Len(ref.mz_ref) :
                ~interp_ok(msexp[k], ref.mz_ref[g])
    THEN [err |-> "ValueError", accum_mz |-> <<>>, accum_int |-> <<>>,
          reads |-> ref.reads + Min({k \in (subtract[1] + 1)..subtract[2] :
                                       \E g \in 1..Len(ref.mz_ref) :
                                           ~interp_ok(msexp[k], ref.mz_ref[g])}) - subtract[1]]
    ELSE [err |-> "none", accum_mz |-> ref.mz_ref,
          accum_int |-> accum_int_of(accumulator,
                            [r \in 1..(subtract[2] - subtract[1]) |->
                                [g \in 1..Len(ref.mz_ref) |->
                                    interp(msexp[subtract[1] + r], ref.mz_ref[g])]],
                            start - subtract[1], end - subtract[1],
                            subtract[2] - subtract[1], Len(ref.mz_ref)),
          reads |-> ref.reads + (subtract[2] - subtract[1])]

\* lines 146-165 for the region subtract
accumulate_region(msexp, start, end, subtract, accumulator) ==
    accumulate_over(msexp, start, end, subtract, accumulator, _get_mz_roi(msexp, subtract))

\* line 141: (subtract[0] > start) or (subtract[-1] < end)
subtract_outside_strict(start, end, subtract) == subtract[1] >= start \/ subtract[2] <= end
subtract_outside(start, end, subtract) == subtract[1] > start \/ subtract[2] < end

\* subtract is <<>> for None
accumulate_spectra(msexp, start, end, subtract, accumulator) ==
    IF accumulator \notin {"sum", "mean"}
    THEN [err |-> "KeyError", accum_mz |-> <<>>, accum_int |-> <<>>, reads |-> 0]
    ELSE IF subtract # <<>> /\ subtract_outside(start, end, subtract)
    THEN [err |-> "ValueError", accum_mz |-> <<>>, accum_int |-> <<>>, reads |-> 0]
    ELSE accumulate_region(msexp, start, end,
                           IF subtract = <<>> THEN <<start, end>> ELSE subtract, accumulator)

\* msexp holds MaxAccScans scans
MaxAccScans == 3

AccMassSet == {100000, 100005, 100010}
AccIntensity(m) == (m - 99995) \div 5
AccScan(masses) == [mz |-> RatSeq(masses), spint |-> [i \in 1..Len(masses) |-> AccIntensity(masses[i])]]
\* scans without peaks and scans of two peaks or more
AccScanChoices ==
    {AccScan(<<>>)} \cup
        {AccScan(m) : m \in {a \in Ascending(AccMassSet, Cardinality(AccMassSet)) : Len(a) >= 2}}

Regions(n) == {<<l, r>> : l \in 0..n, r \in 0..n}

InitAcc ==
    /\ scans \in [1..MaxAccScans -> AccScanChoices]
    /\ \/ \E st \in 0..(MaxAccScans - 1), acc \in AccumulatorSet,
             sub \in {<<>>} \cup {g \in Regions(MaxAccScans) : g[1] <= g[2]} :
             \E en \in (st + 1)..MaxAccScans :
                 /\ params = [start |-> st, end |-> en, subtract |-> sub,
                              accumulator |-> acc, targeted |-> FALSE]
                 /\ call = [fn |-> "accumulate_spectra"]
       \/ \E g \in {g \in Regions(MaxAccScans) : g[1] < g[2]} :
             /\ params = [region |-> g, targeted |-> FALSE]
             /\ call = [fn |-> "_get_mz_roi"]
    /\ pc = "idle"
    /\ k_scan = 0
    /\ p = 0
    /\ mz = <<>>
    /\ spint = <<>>
    /\ procs = <<>>
    /\ rt = <<>>
    /\ roi = <<>>
    /\ hist = <<>>
    /\ ret = [err |-> "pending"]
    /\ container = NoContainer

AccCall ==
    /\ call.fn = "accumulate_spectra"
    /\ ret.err = "pending"
    /\ ret' = accumulate_spectra(scans, params.start, params.end, params.subtract,
                                 params.accumulator)
    /\ UNCHANGED <<driver_vars, call, container>>

MzRoiCall ==
    /\ call.fn = "_get_mz_roi"
    /\ ret.err = "pending"
    /\ ret' = _get_mz_roi(scans, params.region)
    /\ UNCHANGED <<driver_vars, call, container>>

NextAcc ==
    \/ AccCall
    \/ MzRoiCall

SpecAcc == InitAcc /\ [][NextAcc]_vars

----------------------------------------------------------------------------
(* What the spectral accumulator is to return *)

AccDone == call.fn = "accumulate_spectra" /\ ret.err # "pending"
KnownAccumulator == params.accumulator \in {"sum", "mean"}

Flanked == IF params.subtract = <<>> THEN <<params.start, params.end>> ELSE params.subtract

\* the accumulator over the interpolated rows of scans lo..hi-1 at grid
\* point g; nothing for no scans
Contribution(lo, hi, g) ==
    IF hi <= lo THEN RZero
    ELSE IF params.accumulator = "sum"
    THEN RSum([r \in 1..(hi - lo) |-> interp(scans[lo + r], ret.accum_mz[g])])
    ELSE RDivI(RSum([r \in 1..(hi - lo) |-> interp(scans[lo + r], ret.accum_mz[g])]), hi - lo)

\* C24: per grid point the result is accumulator(scans start..end-1) minus
\* accumulator(left flank) minus accumulator(right flank), an empty flank
\* counting as zero, for sum and for mean.
C24_MainMinusFlanks ==
    (AccDone /\ ret.err = "none") =>
        \A g \in 1..Len(ret.accum_mz) :
            ret.accum_int[g] =
                RSub(RSub(Contribution(params.start, params.end, g),
                          Contribution(Flanked[1], params.start, g)),
                     Contribution(params.end, Flanked[2], g))

MzRoiDone == call.fn = "_get_mz_roi" /\ ret.err = "none"

\* the masses and the mass spacings observed in the scans of the region
RegionScans == (params.region[1] + 1)..params.region[2]
RegionMasses == UNION {Range(scans[k].mz) : k \in RegionScans}
RegionSpacings == UNION {Range(np_diff(scans[k].mz)) : k \in RegionScans}

RegionGrid == np_arange(RMinOf(SetToSeqOfRat(RegionMasses)), RMaxOf(SetToSeqOfRat(RegionMasses)),
                        RMinOf(SetToSeqOfRat(RegionSpacings)))

\* C25: the grid runs from the lowest to the highest mass of all scans of
\* the region in steps of the smallest spacing of all of them, and a grid
\* point is kept iff a mass of some scan of the region falls in its bin.
C25_GridFromAllScans ==
    MzRoiDone =>
        ret.mz_ref = [i \in 1..Len(roi_of(scans, params.region, RegionGrid)) |->
                         RegionGrid[roi_of(scans, params.region, RegionGrid)[i]]]


----------------------------------------------------------------------------
(* Errors of the arguments *)

MatchEnded == call.fn = "_match_mz" /\ ret.err # "pending"

\* C26: a call of the matcher whose mode is neither 'closest' nor 'reduce'
\* ends with ValueError whatever the data, also when no running mean has
\* more than one candidate.
C26_UnknownModeRejected ==
    (MatchEnded /\ call.mode \notin {"closest", "reduce"}) => ret.err = "ValueError"


\* C27: a run whose targeted_mz is not 1-D or whose tolerance is not
\* positive ends with ValueError: no processor is made and the loop over the
\* scans is not entered.
C27_BadSeedOrToleranceRejected ==
    ((params.targeted /\ params.targeted_ndim # 1) \/ params.tolerance <= 0) =>
        /\ pc \in {"begin", "raised"}
        /\ procs = <<>>


\* C28: an error of the arguments is raised before any scan is read and
\* before any output array is written: when chromatogram raises ValueError
\* for its accumulator, rt is still all zero.
C28_ValidateThenExecute ==
    (call.fn = "chromatogram" /\ pc = "raised" /\ ret.err = "ValueError") =>
        /\ ~ValidAccumulator
        /\ rt = Zeros(Len(rt))


----------------------------------------------------------------------------
(***************************************************************************)
(* DataContainer of process.py: remove and reset.  A frame is known by its *)
(* labels: index (the samples) and columns (the features), each an array   *)
(* of distinct names.  A name is a number, its rank in the sort order of   *)
(* the names.  The container is made with data_path None.                  *)
(***************************************************************************)

MaxSamples == 2
MaxFeatures == 2

\* a name that is in no frame
Unknown == 0

\* the labels a container is made with: ascending, or descending
Labels(n) == {[i \in 1..n |-> i], [i \in 1..n |-> n + 1 - i]}

\* pandas.Index.difference: the names of index that are not in names, sorted
difference(index, names) == SetToSeq(Range(index) \ names)

\* pd.Index(names).isin(index).all()
isin_all(names, index) == \A name \in names : \E i \in 1..Len(index) : index[i] = name

\* frame.loc[mask]: the rows of mask, in the order of mask; KeyError for a
\* label the frame does not have
loc(labels, mask) ==
    IF \A i \in 1..Len(mask) : mask[i] \in Range(labels)
    THEN [err |-> "none", labels |-> mask]
    ELSE [err |-> "KeyError", labels |-> <<>>]

\* the property data_matrix
data_matrix(c) ==
    [index |-> loc(c._data_matrix.index, c._sample_mask).labels,
     columns |-> loc(c._data_matrix.columns, c._feature_mask).labels]

\* the property feature_definitions
feature_definitions(c) == [index |-> loc(c._feature_definitions.index, c._feature_mask).labels]

\* the property sample_information
sample_information(c) == [index |-> loc(c._sample_information.index, c._sample_mask).labels]

\* DataContainer.__init__ for a data matrix with the given labels, and
\* feature definitions and sample information of the same names
NewContainer(index, columns) ==
    [made |-> TRUE,
     _data_matrix |-> [index |-> index, columns |-> columns],
     _feature_definitions |-> [index |-> columns],
     _sample_information |-> [index |-> index],
     _sample_mask |-> index,
     _feature_mask |-> columns,
     _original_data |-> [index |-> index, columns |-> columns]]

\* DataContainer._is_valid against the frame the container was made with
_is_valid_original(c, index, axis) ==
    IF axis = "features"
    THEN [err |-> "none", value |-> isin_all(index, c._original_data.columns)]
    ELSE IF axis = "samples"
    THEN [err |-> "none", value |-> isin_all(index, c._original_data.index)]
    ELSE [err |-> "ValueError", value |-> FALSE]

\* DataContainer._is_valid
_is_valid(c, index, axis) ==
    IF axis = "features"
    THEN [err |-> "none", value |-> isin_all(index, data_matrix(c).columns)]
    ELSE IF axis = "samples"
    THEN [err |-> "none", value |-> isin_all(index, data_matrix(c).index)]
    ELSE [err |-> "ValueError", value |-> FALSE]

\* DataContainer.remove: the error raised and the container afterwards
remove(c, names, axis) ==
    LET valid == _is_valid(c, names, axis)
    IN  IF valid.err # "none"
        THEN [err |-> valid.err, container |-> c]
        ELSE IF ~valid.value
        THEN [err |-> "ValueError", container |-> c]
        ELSE IF axis = "features"
        THEN [err |-> "none",
              container |-> [c EXCEPT !._feature_mask = difference(c._feature_mask, names)]]
        ELSE IF axis = "samples"
        THEN [err |-> "none",
              container |-> [c EXCEPT !._sample_mask = difference(c._sample_mask, names)]]
        ELSE [err |-> "ValueError", container |-> c]

\* DataContainer.reset that restores the samples alone
reset_samples(c) ==
    [c EXCEPT !._sample_mask = c._original_data.index,
              !._data_matrix = c._original_data]

\* DataContainer.reset
reset(c) ==
    [c EXCEPT !._sample_mask = c._original_data.index,
              !._feature_mask = c._original_data.columns,
              !._data_matrix = c._original_data]

AxisSet == {"features", "samples", "columns"}

\* the names a call of remove is given
NameChoices(axis) ==
    SUBSET ({Unknown} \cup (IF axis = "samples" THEN 1..MaxSamples ELSE 1..MaxFeatures))

\* hist: whether a feature, a sample has been removed since the container
\* was made
NoneRemoved == [features |-> FALSE, samples |-> FALSE]

InitContainer ==
    /\ \E index \in Labels(MaxSamples), columns \in Labels(MaxFeatures) :
          /\ params = [index |-> index, columns |-> columns, targeted |-> FALSE]
          /\ container = NewContainer(index, columns)
    /\ pc = "idle"
    /\ k_scan = 0
    /\ p = 0
    /\ mz = <<>>
    /\ spint = <<>>
    /\ procs = <<>>
    /\ rt = <<>>
    /\ roi = <<>>
    /\ scans = <<>>
    /\ hist = NoneRemoved
    /\ call = NoCall
    /\ ret = [err |-> "none"]

Remove ==
    /\ container.made
    /\ \E axis \in AxisSet : \E names \in NameChoices(axis) :
          LET r == remove(container, names, axis)
          IN  /\ call' = [fn |-> "remove", remove |-> names, axis |-> axis]
              /\ ret' = [err |-> r.err]
              /\ container' = r.container
              /\ hist' = IF r.err # "none" THEN hist
                         ELSE IF axis = "features"
                         THEN [hist EXCEPT !.features = @ \/ names # {}]
                         ELSE [hist EXCEPT !.samples = @ \/ names # {}]
    /\ UNCHANGED driver_state

Reset ==
    /\ container.made
    /\ call' = [fn |-> "reset"]
    /\ ret' = [err |-> "none"]
    /\ container' = reset(container)
    /\ UNCHANGED <<driver_state, hist>>

NextContainer ==
    \/ Remove
    \/ Reset

SpecContainer == InitContainer /\ [][NextContainer]_vars

----------------------------------------------------------------------------
(* What remove and reset are to do, stated on the names *)

Samples(c) == Range(data_matrix(c).index)
Features(c) == Range(data_matrix(c).columns)

\* C29: after any removals of features and of samples, reset makes
\* data_matrix, feature_definitions and sample_information show the samples
\* and the features the container was made with, and a second reset changes
\* nothing.
C29_ResetRestoresOriginal ==
    (container.made /\ call.fn = "reset") =>
        /\ Samples(container) = Range(params.index)
        /\ Features(container) = Range(params.columns)
        /\ Range(feature_definitions(container).index) = Range(params.columns)
        /\ Range(sample_information(container).index) = Range(params.index)
        /\ reset(container) = container

\* a reset after features and samples had been removed
C29_Witness ==
    /\ container.made
    /\ call.fn = "reset"
    /\ hist.features
    /\ hist.samples
    /\ Samples(container) = Range(params.index)
    /\ Features(container) = Range(params.columns)

\* C30: remove raises ValueError when a name is not in the container now
\* (one removed before included) or the axis is neither features nor
\* samples, and then no mask changes; a remove of features that succeeds
\* leaves the samples as they were, and a remove of samples the features.
C30_Step ==
    (container.made /\ call'.fn = "remove") =>
        LET names == call'.remove
            axis == call'.axis
            absent == \/ axis \notin {"features", "samples"}
                      \/ axis = "features" /\ ~(names \subseteq Features(container))
                      \/ axis = "samples" /\ ~(names \subseteq Samples(container))
        IN  /\ absent => /\ ret'.err = "ValueError"
                         /\ container'._sample_mask = container._sample_mask
                         /\ container'._feature_mask = container._feature_mask
            /\ ~absent => ret'.err = "none"
            /\ (ret'.err = "none" /\ axis = "features") =>
                  /\ Samples(container') = Samples(container)
                  /\ Features(container') = Features(container) \ names
            /\ (ret'.err = "none" /\ axis = "samples") =>
                  /\ Features(container') = Features(container)
                  /\ Samples(container') = Samples(container) \ names

C30_RemoveRejectsAbsentNames == [][C30_Step]_vars

\* a remove of a feature that had been removed before has raised ValueError
C30_Witness ==
    /\ container.made
    /\ call.fn = "remove"
    /\ call.axis = "features"
    /\ call.remove \cap (Range(params.columns) \ Features(container)) # {}
    /\ Unknown \notin call.remove
    /\ ret.err = "ValueError"


----------------------------------------------------------------------------
(***************************************************************************)
(* Processor and Pipeline of filter.py.  A processor is known by its mode, *)
(* its axis, its requirements and the names its func selects; what         *)
(* diagnose reports of the values of the data (missing values, run order,  *)
(* batch) is given with the container and does not change.  hist is the    *)
(* log of what has been called on the container.                           *)
(***************************************************************************)

MaxProcessors == 2

\* DataContainer.diagnose: empty is read from the data matrix
diagnose(c, status) ==
    [empty |-> data_matrix(c).index = <<>> \/ data_matrix(c).columns = <<>>,
     missing |-> status.missing,
     order |-> status.order,
     batch |-> status.batch]

\* _requirements_error
requirements_error(requirement) ==
    IF requirement = "empty" THEN "EmptyDataContainerError"
    ELSE IF requirement = "missing" THEN "MissingValueError"
    ELSE IF requirement = "order" THEN "RunOrderError"
    ELSE "BatchInformationError"

RequirementKeys == <<"empty", "missing", "order", "batch">>

\* Processor.check_requirements, lines 191-193: the error of the first
\* requirement that diagnose does not report as required
check_requirements(proc, dc_status) ==
    LET failed == {k \in 1..Len(RequirementKeys) :
                      /\ RequirementKeys[k] \in DOMAIN proc.requirements
                      /\ proc.requirements[RequirementKeys[k]] # dc_status[RequirementKeys[k]]}
    IN  IF failed = {} THEN "none" ELSE requirements_error(RequirementKeys[Min(failed)])

\* func of a filter: the names of its axis it selects among those present
func(proc, c) ==
    IF proc.axis = "features" THEN proc.selects \cap Range(data_matrix(c).columns)
    ELSE IF proc.axis = "samples" THEN proc.selects \cap Range(data_matrix(c).index)
    ELSE {}

Event(name, step, c) == [name |-> name, step |-> step, dc |-> c]

\* Processor.process with func called before check_requirements
process_func_first(proc, c, status) ==
    LET removed == IF proc.mode = "filter" THEN remove(c, func(proc, c), proc.axis)
                   ELSE [err |-> "none", container |-> c]
        err == check_requirements(proc, diagnose(removed.container, status))
    IN  [err |-> err, container |-> removed.container,
         log |-> <<Event(proc.name, "func", c),
                   Event(proc.name, "check_requirements", removed.container)>>]

\* Processor.process: the error raised, the container afterwards and the
\* calls made, each with the container it was given
process(proc, c, status) ==
    LET err == check_requirements(proc, diagnose(c, status))
        checked == <<Event(proc.name, "check_requirements", c)>>
    IN  IF err # "none"
        THEN [err |-> err, container |-> c, log |-> checked]
        ELSE IF proc.mode = "filter"
        THEN LET removed == remove(c, func(proc, c), proc.axis)
             IN  [err |-> removed.err, container |-> removed.container,
                  log |-> checked \o <<Event(proc.name, "func", c)>>]
        ELSE IF proc.mode \in {"flag", "transform"}
        THEN [err |-> "none", container |-> c,
              log |-> checked \o <<Event(proc.name, "func", c)>>]
        ELSE [err |-> "ValueError", container |-> c, log |-> checked]

NoRequirements == [k \in {} |-> FALSE]
BatchRequirements == [empty |-> FALSE, missing |-> FALSE, order |-> TRUE, batch |-> TRUE]

Processor(name, mode, axis, requirements, selects) ==
    [name |-> name, mode |-> mode, axis |-> axis, requirements |-> requirements,
     selects |-> selects]

\* the processors of BatchCorrector.__init__, in the order of its list
BatchCorrector(invalid_samples, low_prevalence) ==
    <<Processor("Batch Template Check", "filter", "samples", BatchRequirements, invalid_samples),
      Processor("Batch Prevalence Checker", "filter", "features", BatchRequirements, low_prevalence),
      Processor("Batch Corrector", "transform", "None", BatchRequirements, {})>>

ProcessorChoices ==
    {Processor("Class Remover", "filter", "samples", NoRequirements, 1..MaxSamples),
     Processor("Prevalence Filter", "filter", "features", [empty |-> FALSE, missing |-> FALSE], {1}),
     Processor("Blank Corrector", "transform", "None", [empty |-> FALSE, missing |-> FALSE], {}),
     Processor("Flag", "flag", "features", NoRequirements, {1}),
     Processor("Other", "other", "features", NoRequirements, {})}

RECURSIVE Lists(_, _)
Lists(S, n) == IF n = 0 THEN {<<>>}
               ELSE Lists(S, n - 1) \cup {Append(l, x) : l \in {l \in Lists(S, n - 1) : Len(l) = n - 1}, x \in S}

PipelineChoices ==
    (Lists(ProcessorChoices, MaxProcessors) \ {<<>>})
        \cup {BatchCorrector(inv, low) : inv \in SUBSET (1..MaxSamples), low \in {{}, {1}}}

StatusChoices ==
    {[missing |-> FALSE, order |-> TRUE, batch |-> TRUE],
     [missing |-> TRUE, order |-> TRUE, batch |-> TRUE],
     [missing |-> FALSE, order |-> FALSE, batch |-> TRUE]}

InitPipeline ==
    /\ \E processors \in PipelineChoices, status \in StatusChoices :
          params = [processors |-> processors, status |-> status, targeted |-> FALSE]
    /\ container = NewContainer([i \in 1..MaxSamples |-> i], [i \in 1..MaxFeatures |-> i])
    /\ pc = "pipeline"
    /\ k_scan = 0
    /\ p = 1
    /\ mz = <<>>
    /\ spint = <<>>
    /\ procs = <<>>
    /\ rt = <<>>
    /\ roi = <<>>
    /\ scans = <<>>
    /\ hist = <<>>
    /\ call = [fn |-> "Pipeline.process"]
    /\ ret = [err |-> "pending"]

\* Pipeline.process, lines 250-253: x.process(dc) for the next x of the list
PipelineStep ==
    /\ pc = "pipeline"
    /\ p <= Len(params.processors)
    /\ LET r == process(params.processors[p], container, params.status)
       IN  /\ container' = r.container
           /\ hist' = hist \o r.log
           /\ IF r.err = "none"
              THEN p' = p + 1 /\ UNCHANGED <<pc, ret>>
              ELSE pc' = "raised" /\ ret' = [err |-> r.err] /\ UNCHANGED p
    /\ UNCHANGED <<params, k_scan, mz, spint, procs, rt, roi, scans, call>>

\* Pipeline.process, line 254
PipelineReturn ==
    /\ pc = "pipeline"
    /\ p > Len(params.processors)
    /\ pc' = "done"
    /\ ret' = [err |-> "none"]
    /\ UNCHANGED <<params, k_scan, p, mz, spint, procs, rt, roi, scans, hist, call, container>>

NextPipeline ==
    \/ PipelineStep
    \/ PipelineReturn

SpecPipeline == InitPipeline /\ [][NextPipeline]_vars

----------------------------------------------------------------------------
(* The order of the calls of a pipeline *)

PipelineRunning == call.fn = "Pipeline.process"

\* the positions of the log at which func was called
FuncCalls == {e \in 1..Len(hist) : hist[e].step = "func"}
CheckCalls == {e \in 1..Len(hist) : hist[e].step = "check_requirements"}

\* the number of processors that have been applied, the raising one included
Applied == IF pc = "raised" THEN p ELSE p - 1

\* C31: the processors are applied once each in the order of the list, each
\* to the container the one before it left; after a raise no later one is
\* applied; func is called after the requirements were checked on the same
\* container, and a failed requirement leaves the container as it was.
C31_ProcessorsInOrder ==
    PipelineRunning =>
        /\ Cardinality(CheckCalls) = Applied
        /\ \A k \in 1..Applied :
              LET e == SetToSeq(CheckCalls)[k]
                  proc == params.processors[k]
              IN  /\ hist[e].name = proc.name
                  /\ k = 1 => hist[e].dc = NewContainer(container._original_data.index,
                                                        container._original_data.columns)
                  /\ k < Applied =>
                        LET next == hist[SetToSeq(CheckCalls)[k + 1]].dc
                            selected == IF proc.mode = "filter" THEN proc.selects ELSE {}
                        IN  /\ e + 1 \in FuncCalls
                            /\ Samples(next) = Samples(hist[e].dc) \
                                  (IF proc.axis = "samples" THEN selected ELSE {})
                            /\ Features(next) = Features(hist[e].dc) \
                                  (IF proc.axis = "features" THEN selected ELSE {})
        /\ \A e \in FuncCalls :
              /\ e - 1 \in CheckCalls
              /\ hist[e - 1].name = hist[e].name
              /\ hist[e - 1].dc = hist[e].dc
        /\ pc = "done" => /\ Applied = Len(params.processors)
                          /\ Cardinality(FuncCalls) = Applied
        /\ (pc = "raised" /\ Len(hist) \in CheckCalls) => container = hist[Len(hist)].dc

\* BatchCorrector has stopped at the prevalence filter, whose requirement
\* failed on the container the template check had emptied
C31_Witness ==
    /\ PipelineRunning
    /\ pc = "raised"
    /\ Len(params.processors) = 3
    /\ p = 2
    /\ ret.err = "EmptyDataContainerError"
    /\ Len(hist) \in CheckCalls
    /\ container._sample_mask = <<>>


----------------------------------------------------------------------------
(***************************************************************************)
(* make_widths_ms, get_ms_cwt_params and MSSpectrum.find_peaks.  Widths    *)
(* are in units of 0.0001 Da.  pick_cwt is not part of the sources at      *)
(* hand: find_peaks is known by the widths and parameters it passes on.    *)
(***************************************************************************)

\* np.linspace(start, stop, num)
np_linspace(start, stop, num) ==
    [i \in 1..num |-> RAdd(RInt(start), RDivI(RMulI(RInt(stop - start), i - 1), num - 1))]

\* lines 254-256: [:-1] drops the repeated value
widths_of(min_width, middle, max_width) ==
    SubSeq(np_linspace(min_width, middle, 20), 1, 19) \o np_linspace(middle, max_width, 10)

\* make_widths_ms: the second test is of "qtof" again
make_widths_ms(mode) ==
    IF mode = "qtof" THEN [err |-> "none", widths |-> widths_of(50, 1000, 2000)]
    ELSE IF mode = "qtof" THEN [err |-> "none", widths |-> widths_of(5, 10, 50)]
    ELSE [err |-> "ValueError", widths |-> <<>>]

\* get_ms_cwt_params
get_ms_cwt_params(mode) ==
    IF mode = "qtof"
    THEN [err |-> "none", cwt_params |-> [snr |-> 10, bl_ratio |-> 2, gap_thresh |-> 1,
                                          min_width |-> 100, max_width |-> 2000]]
    ELSE IF mode = "orbitrap"
    THEN [err |-> "none", cwt_params |-> [snr |-> 10, bl_ratio |-> 2, gap_thresh |-> 1,
                                          min_width |-> 5, max_width |-> 50]]
    ELSE [err |-> "ValueError", cwt_params |-> <<>>]

\* default_params.update(cwt_params)
update(default_params, cwt_params) ==
    [k \in DOMAIN default_params |->
        IF k \in DOMAIN cwt_params THEN cwt_params[k] ELSE default_params[k]]

\* MSSpectrum.find_peaks up to the call of pick_cwt
find_peaks(mode, cwt_params) ==
    LET default_params == get_ms_cwt_params(mode)
        widths == make_widths_ms(mode)
    IN  IF default_params.err # "none"
        THEN [err |-> default_params.err, widths |-> <<>>, cwt_params |-> <<>>]
        ELSE IF widths.err # "none"
        THEN [err |-> widths.err, widths |-> <<>>, cwt_params |-> <<>>]
        ELSE [err |-> "none", widths |-> widths.widths,
              cwt_params |-> update(default_params.cwt_params, cwt_params)]

MsModeSet == {"qtof", "orbitrap", "hplc", "uplc", "tof", ""}
SnrSet == {5, 10, 20}
BlRatioSet == {2, 3}

\* the cwt_params a call of find_peaks is given: none, or values for some keys
CwtParamChoices ==
    {[k \in {} |-> 0]}
        \cup {[snr |-> v] : v \in SnrSet}
        \cup {[bl_ratio |-> v] : v \in BlRatioSet}
        \cup {[snr |-> v, bl_ratio |-> w] : v \in SnrSet, w \in BlRatioSet}

InitPeaks ==
    /\ Idle
    /\ \E mode \in MsModeSet :
          \/ call = [fn |-> "make_widths_ms", mode |-> mode]
          \/ call = [fn |-> "get_ms_cwt_params", mode |-> mode]
          \/ \E c \in CwtParamChoices : call = [fn |-> "find_peaks", mode |-> mode, cwt_params |-> c]
    /\ ret = [err |-> "pending"]

WidthsCall ==
    /\ call.fn = "make_widths_ms"
    /\ ret.err = "pending"
    /\ ret' = make_widths_ms(call.mode)
    /\ UNCHANGED <<driver_vars, call, container>>

CwtParamsCall ==
    /\ call.fn = "get_ms_cwt_params"
    /\ ret.err = "pending"
    /\ ret' = get_ms_cwt_params(call.mode)
    /\ UNCHANGED <<driver_vars, call, container>>

FindPeaksCall ==
    /\ call.fn = "find_peaks"
    /\ ret.err = "pending"
    /\ ret' = find_peaks(call.mode, call.cwt_params)
    /\ UNCHANGED <<driver_vars, call, container>>

NextPeaks ==
    \/ WidthsCall
    \/ CwtParamsCall
    \/ FindPeaksCall

SpecPeaks == InitPeaks /\ [][NextPeaks]_vars

\* C32: make_widths_ms and find_peaks return widths for the modes qtof and
\* orbitrap and raise ValueError for any other mode and for no other, as
\* get_ms_cwt_params does.
C32_BothModesAccepted ==
    (call.fn \in {"make_widths_ms", "find_peaks", "get_ms_cwt_params"} /\ ret.err # "pending") =>
        /\ call.mode \in {"qtof", "orbitrap"} => ret.err = "none"
        /\ call.mode \notin {"qtof", "orbitrap"} => ret.err = "ValueError"
        /\ (ret.err = "none" /\ call.fn # "get_ms_cwt_params") => Len(ret.widths) = 29


----------------------------------------------------------------------------
(* The buffers of the processors of a run of _make_roi *)

MakeRoiRunning == pc \in {"read", "add", "append", "spawn", "spawn_add", "spawn_append",
                          "flush", "flush_append", "done", "raised"}

\* the processor whose add is about to be called
Adding == IF (pc = "add" /\ mz # <<>>) \/ pc = "spawn_add" THEN {p} ELSE {}

\* C33: the buffers of a processor made at scan k have end - k columns, the
\* number of columns a processor has filled is never more than that, and
\* when add is called a column is left to write to.
C33_BufferBound ==
    MakeRoiRunning =>
        \A q \in 1..Len(procs) :
            /\ procs[q].size = params.end - (params.start + procs[q].first_scan)
            /\ \A row \in 1..Len(procs[q].mz) :
                  /\ Len(procs[q].mz[row]) = procs[q].size
                  /\ Len(procs[q].sp[row]) = procs[q].size
            /\ procs[q].index <= procs[q].size
            /\ q \in Adding => procs[q].index < procs[q].size

\* a run has ended with the buffers of its first processor and of a later
\* one full
C33_Witness ==
    /\ pc = "done"
    /\ Len(procs) >= 2
    /\ procs[1].index = procs[1].size
    /\ \E q \in 2..Len(procs) : procs[q].index = procs[q].size /\ procs[q].size >= 2


\* the scans of the run, by position from params.start, whose retention
\* time is t
ScansAt(t) == {k \in 1..Len(scans) : RetentionTime(params.start + k - 1) = t}

\* C34: in every returned ROI the retention time at an entry is that of
\* the scan the entry's mass was read from, also when scans without peaks
\* or without masses left for later processors lie in between (stated for
\* closest mode, in which a matched mass is a mass of the scan).
C34_RetentionTimeOfEachEntry ==
    (pc = "done" /\ params.multiple_match = "closest") =>
        \A i \in 1..Len(roi) : \A c \in 1..Len(roi[i].mz) :
            roi[i].mz[c] # RZero =>
                /\ c <= Len(roi[i].rt)
                /\ \E k \in ScansAt(roi[i].rt[c]) : roi[i].mz[c] \in Range(scans[k].mz)


\* C35: for ascending running means and new masses and the modes closest
\* and reduce the matcher returns without raising, also when several slots
\* have several candidates each or unmatched masses come first; the slots
\* it returns are strictly increasing and the matched masses and
\* intensities are as many as the slots.
C35_MatcherReturnsWellFormed ==
    (MatchEnded /\ call.mode \in {"closest", "reduce"}) =>
        /\ ret.err = "none"
        /\ \A t \in 1..(Len(ret.match_index) - 1) : ret.match_index[t] < ret.match_index[t + 1]
        /\ Len(ret.mz_match) = Len(ret.match_index)
        /\ Len(ret.sp_match) = Len(ret.match_index)


\* C36: in untargeted mode the first entry of every ROI a processor has
\* emitted is a mass that was matched, not the zero of a missed scan, also
\* for the later ROIs of a slot.
C36_RoiStartsAtAMatch ==
    (MakeRoiRunning /\ ~params.targeted) =>
        \A q \in 1..Len(procs) : \A i \in 1..Len(procs[q].roi) :
            /\ procs[q].roi[i].mz # <<>>
            /\ procs[q].roi[i].mz[1] # RZero


\* the cells of processor q, as (row, column) pairs
Cells(q) == Rows(procs[q]) \X (1..procs[q].size)

\* the positions in the list of processor q of the ROIs of a row
RoisOf(proc, row) == {i \in 1..Len(proc.roi) : proc.roi[i].row = row}

C37_Step ==
    /\ \A q \in 1..Len(procs) : \A cell \in Cells(q) :
          \* a column that has been processed is not written again
          /\ cell[2] <= procs[q].index =>
                /\ procs'[q].mz[cell[1]][cell[2]] = procs[q].mz[cell[1]][cell[2]]
                /\ procs'[q].sp[cell[1]][cell[2]] = procs[q].sp[cell[1]][cell[2]]
          \* a step writes to the next column alone
          /\ cell[2] > procs[q].index + 1 =>
                /\ procs'[q].mz[cell[1]][cell[2]] = RZero
                /\ procs'[q].sp[cell[1]][cell[2]] = 0
    /\ \A q \in 1..Len(procs) : \A row \in Rows(procs[q]) :
          \* the ROIs of a slot follow one another
          /\ \A i, j \in RoisOf(procs'[q], row) :
                i < j => /\ procs'[q].roi[i].first < procs'[q].roi[i].last
                         /\ procs'[q].roi[i].last <= procs'[q].roi[j].first
          \* a new ROI spans from the last finalization to this one
          /\ \A i \in RoisOf(procs'[q], row) \ RoisOf(procs[q], row) :
                /\ procs'[q].roi[i].first = procs[q].start[row]
                /\ procs'[q].roi[i].last = procs[q].index
                /\ procs'[q].start[row] = procs[q].index
          \* the start of a slot moves at a finalization alone, to the column
          \* then reached
          /\ procs'[q].start[row] # procs[q].start[row] =>
                /\ pc \in AppendPcs
                /\ procs[q].missing[row] > params.max_missing
                /\ procs'[q].start[row] = procs[q].index

\* C37: a cell of a processor's buffers is written once at most, and the
\* ROIs of one slot span disjoint, increasing ranges of columns, each from
\* the column of the slot's previous finalization to that of its own.
C37_WriteOnceColumns == [][C37_Step]_vars

\* a slot has emitted two ROIs, the second from the column the first ended at
C37_Witness ==
    /\ MakeRoiRunning
    /\ \E q \in 1..Len(procs) : \E i, j \in 1..Len(procs[q].roi) :
          /\ i < j
          /\ procs[q].roi[i].row = procs[q].roi[j].row
          /\ procs[q].roi[i].last = procs[q].roi[j].first
          /\ procs[q].roi[j].first < procs[q].roi[j].last


\* C38: the running means of a processor are its own: when _make_roi has
\* returned in targeted mode, the array targeted_mz of the caller holds
\* what it held before the call.
C38_TargetedMzUnchanged ==
    (call.fn = "_make_roi" /\ params.targeted) => params.targeted_mz = RatSeq(<<TraceSeed>>)


----------------------------------------------------------------------------
(***************************************************************************)
(* Chromatogram.__init__ and Chromatogram.find_peaks.  An object is known  *)
(* by the attributes that have been assigned to it; None is the empty      *)
(* sequence and a given value v the sequence <<v>>.                        *)
(***************************************************************************)

MaxRtSize == 3

\* make_widths_lc
make_widths_lc(mode) ==
    IF mode = "uplc"
    THEN [err |-> "none",
          widths |-> SubSeq(np_linspace(1, 15, 20), 1, 19) \o np_linspace(15, 60, 20)]
    ELSE IF mode = "hplc"
    THEN [err |-> "none",
          widths |-> SubSeq(np_linspace(1, 30, 20), 1, 19) \o np_linspace(30, 90, 20)]
    ELSE [err |-> "ValueError", widths |-> <<>>]

\* get_lc_cwt_params
get_lc_cwt_params(mode) ==
    IF mode = "hplc"
    THEN [err |-> "none", cwt_params |-> [snr |-> 10, bl_ratio |-> 2, gap_thresh |-> 1,
                                          min_width |-> 10, max_width |-> 90]]
    ELSE IF mode = "uplc"
    THEN [err |-> "none", cwt_params |-> [snr |-> 10, bl_ratio |-> 2, gap_thresh |-> 1,
                                          min_width |-> 5, max_width |-> 60]]
    ELSE [err |-> "ValueError", cwt_params |-> <<>>]

\* Chromatogram.__init__: the attributes assigned, with their values (rt is
\* known by its size)
Chromatogram_init(rt_size, start, end) ==
    LET assigned == {"rt", "peaks"}
                        \cup (IF start = <<>> THEN {"start"} ELSE {})
                        \cup (IF end = <<>> THEN {"end"} ELSE {})
    IN  [a \in assigned |->
            IF a = "rt" THEN rt_size
            ELSE IF a = "peaks" THEN -1
            ELSE IF a = "start" THEN 0
            ELSE rt_size]

\* Chromatogram.find_peaks up to the call of pick_cwt: the slice of rt and
\* spint it passes on
Chromatogram_find_peaks(self, mode) ==
    IF get_lc_cwt_params(mode).err # "none"
    THEN [err |-> get_lc_cwt_params(mode).err, first |-> 0, last |-> 0]
    ELSE IF make_widths_lc(mode).err # "none"
    THEN [err |-> make_widths_lc(mode).err, first |-> 0, last |-> 0]
    ELSE IF "start" \notin DOMAIN self \/ "end" \notin DOMAIN self
    THEN [err |-> "AttributeError", first |-> 0, last |-> 0]
    ELSE [err |-> "none", first |-> self["start"],
          last |-> IF self["end"] < self["rt"] THEN self["end"] ELSE self["rt"]]

LcModeSet == {"uplc", "hplc", "qtof"}

\* a Chromatogram is about to be made; roi is to hold it
InitChromatogram ==
    /\ \E n \in 0..MaxRtSize, mode \in LcModeSet :
          \E start \in Optional(0..n), end \in Optional(0..n) :
              call = [fn |-> "Chromatogram", rt_size |-> n, start |-> start, end |-> end,
                      mode |-> mode]
    /\ params = [targeted |-> FALSE]
    /\ pc = "new"
    /\ k_scan = 0
    /\ p = 0
    /\ mz = <<>>
    /\ spint = <<>>
    /\ procs = <<>>
    /\ rt = <<>>
    /\ roi = <<>>
    /\ scans = <<>>
    /\ hist = <<>>
    /\ ret = [err |-> "pending"]
    /\ container = NoContainer

\* Chromatogram(spint, rt, mz, start, end)
ChromatogramNew ==
    /\ call.fn = "Chromatogram"
    /\ pc = "new"
    /\ roi' = <<Chromatogram_init(call.rt_size, call.start, call.end)>>
    /\ pc' = "made"
    /\ UNCHANGED <<params, k_scan, p, mz, spint, procs, rt, scans, hist, call, ret, container>>

\* chromatogram.find_peaks(mode)
ChromatogramFindPeaks ==
    /\ call.fn = "Chromatogram"
    /\ pc = "made"
    /\ ret' = Chromatogram_find_peaks(roi[1], call.mode)
    /\ pc' = IF ret'.err = "none" THEN "done" ELSE "raised"
    /\ UNCHANGED <<params, k_scan, p, mz, spint, procs, rt, roi, scans, hist, call, container>>

NextChromatogram ==
    \/ ChromatogramNew
    \/ ChromatogramFindPeaks

SpecChromatogram == InitChromatogram /\ [][NextChromatogram]_vars

\* C39: every Chromatogram that has been made has the attributes start and
\* end: the argument when one is given, 0 and rt.size when it is not, each
\* on its own, and find_peaks does not fail to read them.
C39_StartAndEndAlwaysSet ==
    (call.fn = "Chromatogram" /\ pc \in {"made", "done", "raised"}) =>
        /\ "start" \in DOMAIN roi[1]
        /\ "end" \in DOMAIN roi[1]
        /\ roi[1]["start"] = (IF call.start = <<>> THEN 0 ELSE call.start[1])
        /\ roi[1]["end"] = (IF call.end = <<>> THEN call.rt_size ELSE call.end[1])
        /\ ret.err # "AttributeError"


----------------------------------------------------------------------------
(***************************************************************************)
(* ClassRemover.func of filter.py.  The mapping of a container is a dict   *)
(* with the sample types as keys, in the order of SAMPLE_TYPES; the value  *)
(* of a key is None (the empty sequence) or a list of classes (<<S>>, S    *)
(* the set of its classes).                                                *)
(***************************************************************************)

SAMPLE_TYPES == <<"sample", "qc", "blank", "suitability", "zero">>

ClassNames == {"healthy", "QC"}

\* the local diff of func: not yet assigned, or its value
Unbound == [bound |-> FALSE, value |-> <<>>]
Bound(v) == [bound |-> TRUE, value |-> v]

\* lines 314-319: diff for a sample type that has classes
diff_of(sample_classes, classes) ==
    IF sample_classes \ classes = {} THEN <<>> ELSE <<sample_classes \ classes>>

\* lines 312-320, from the k-th item of the mapping on
RECURSIVE remove_from_mapping(_, _, _, _)
remove_from_mapping(mapping, classes, k, diff) ==
    IF k > Len(mapping) THEN [err |-> "none", mapping |-> mapping]
    ELSE LET sample_classes == mapping[k]
             d == IF sample_classes # <<>>
                  THEN Bound(diff_of(sample_classes[1], classes))
                  ELSE diff
         IN  IF ~d.bound
             THEN [err |-> "UnboundLocalError", mapping |-> mapping]
             ELSE remove_from_mapping([mapping EXCEPT ![k] = d.value], classes, k + 1, d)

\* ClassRemover.func: the error raised, the mapping afterwards and the
\* index returned
ClassRemover_func(c, classes) ==
    LET remove_samples == {sample \in DOMAIN c.classes : c.classes[sample] \in classes}
        removed == remove_from_mapping(c._mapping, classes, 1, Unbound)
    IN  [err |-> removed.err, mapping |-> removed.mapping,
         remove_samples |-> IF removed.err = "none" THEN remove_samples ELSE {}]

\* the mappings of a container: a sample type has no classes or some
MappingChoices == [1..Len(SAMPLE_TYPES) -> Optional((SUBSET ClassNames) \ {{}})]

InitClassRemover ==
    /\ \E mapping \in MappingChoices, classes \in [1..MaxSamples -> ClassNames],
          remove_classes \in SUBSET ClassNames :
          /\ container = [made |-> TRUE, _mapping |-> mapping, classes |-> classes]
          /\ params = [mapping |-> mapping, targeted |-> FALSE]
          /\ call = [fn |-> "ClassRemover.func", classes |-> remove_classes]
    /\ pc = "idle"
    /\ k_scan = 0
    /\ p = 0
    /\ mz = <<>>
    /\ spint = <<>>
    /\ procs = <<>>
    /\ rt = <<>>
    /\ roi = <<>>
    /\ scans = <<>>
    /\ hist = <<>>
    /\ ret = [err |-> "pending"]

ClassRemoverFunc ==
    /\ call.fn = "ClassRemover.func"
    /\ ret.err = "pending"
    /\ LET r == ClassRemover_func(container, call.classes)
       IN  /\ ret' = [err |-> r.err, remove_samples |-> r.remove_samples]
           /\ container' = [container EXCEPT !._mapping = r.mapping]
    /\ UNCHANGED <<driver_vars, call>>

NextClassRemover == ClassRemoverFunc

SpecClassRemover == InitClassRemover /\ [][NextClassRemover]_vars

\* C40: func does not raise; afterwards every sample type has the classes
\* it had but the removed ones, None when none is left, and a sample type
\* without classes still has none, wherever it is in the mapping; the index
\* returned holds the samples whose class is removed, and no other.
C40_ClassesRemovedFromMapping ==
    (call.fn = "ClassRemover.func" /\ ret.err # "pending") =>
        /\ ret.err = "none"
        /\ \A k \in 1..Len(SAMPLE_TYPES) :
              IF params.mapping[k] = <<>> \/ params.mapping[k][1] \subseteq call.classes
              THEN container._mapping[k] = <<>>
              ELSE container._mapping[k] = <<params.mapping[k][1] \ call.classes>>
        /\ ret.remove_samples =
              {sample \in 1..MaxSamples : container.classes[sample] \in call.classes}

====
